---- MODULE Spec2Model ----
(***************************************************************************)
(* Model of the table generator of BenchExec                               *)
(* (benchexec/tablegenerator/__init__.py): task reconciliation             *)
(* (merge_tasks, merge_task_lists, find_common_tasks, get_rows), the diff  *)
(* filter, StatValue.from_list and get_stats_of_run_set.                   *)
(***************************************************************************)
EXTENDS Integers, Sequences, FiniteSets, TLC

VARIABLES
    pc,                      \* position of main() / of the function under study
    common,                  \* options.common
    input,                   \* per result file, the tasks of its run tags, in file order
    runSetResults,           \* the list of RunSetResult objects
    task_list,               \* merge_tasks / find_common_tasks: task_list
    task_set,                \* merge_tasks / find_common_tasks: task_set
    rs,                      \* merge_tasks: outer loop cursor (1-based)
    pos,                     \* merge_tasks: inner loop cursor (1-based)
    index,                   \* merge_tasks: index (0-based, as in the source)
    currentresult_taskset,   \* merge_tasks: currentresult_taskset
    rows,                    \* main(): rows
    rowsDiff,                \* main(): rowsDiff
    valueList,               \* StatValue.from_list: the argument values
    stat,                    \* StatValue.from_list: the StatValue returned
    runResults,              \* get_stats_of_run_set: the argument runResults
    correct_only,            \* get_stats_of_run_set: the argument correct_only
    stats,                   \* get_stats_of_run_set: the tuple of rows returned
    ignoreFlappingTimeouts,  \* options.ignoreFlappingTimeouts
    regressions,             \* get_regression_count: the number returned
    countsList,              \* get_counts: the list returned
    result_files,            \* load_results: the result files, by what they hold
    ignore_errors,           \* options.ignore_errors
    futures,                 \* the futures of the submitted work, in submission order
    finished,                \* the indices of the futures in the order of completion
    gathered,                \* the results collected from the futures so far
    loaded,                  \* main(): the run sets returned by load_results
    statsList,               \* get_stats: the statistics collected per run set
    toolmodule,              \* collect_data: the run set's attribute toolmodule
    xml_results,             \* collect_data: self._xml_results, the run tags
    listOfColumns,           \* collect_data: self.columns
    self_results,            \* collect_data: self.results
    run_no,                  \* collect_data: cursor of the loop over the run tags
    col_no,                  \* create_from_xml: cursor of the loop over the columns
    run_values,              \* create_from_xml: values
    run_sources,             \* where each of the values was taken from
    logfileLines,            \* create_from_xml: logfileLines
    log_zip_cache,           \* collect_data: the URLs that log_zip_cache holds
    loaded_tools,            \* the module-level dictionary loaded_tools
    load_attempts,           \* the calls of load_tool_module in the process, in order
    io,                      \* the files opened and closed, in order
    run_tags_exist,          \* column discovery: the result file has run tags
    column_tags,             \* column discovery: the column tags of the run tags
    all_columns,             \* options.all_columns
    existing_columns,        \* column discovery: the list of columns returned
    log_text,                \* get_value_from_output: the text of the log file
    identifier,              \* get_value_from_output: the text searched for
    extracted,               \* get_value_from_output: the value returned
    executable,              \* cmdline: the version of the tool behind executable
    options,                 \* cmdline: the caller's list of options
    propertyfile,            \* cmdline: the property file of the caller
    input_files,             \* cmdline: tasks
    _uses_propertyfile,      \* UltimateTool._uses_propertyfile
    cmdlines                 \* cmdline: what the calls so far returned

mergeVars == <<common, input, runSetResults, task_list, task_set, rs, pos, index,
               currentresult_taskset>>

statVars == <<valueList, stat>>

statsVars == <<runResults, correct_only, stats>>

dumpVars == <<ignoreFlappingTimeouts, regressions, countsList>>

\* the variables of the other functions under study
loadVars == <<result_files, ignore_errors, futures, finished, gathered, loaded, statsList>>

collectVars == <<toolmodule, xml_results, listOfColumns, self_results, run_no, col_no,
                 run_values, run_sources, logfileLines, log_zip_cache, loaded_tools,
                 load_attempts, io>>

columnVars == <<run_tags_exist, column_tags, all_columns, existing_columns>>

extractVars == <<log_text, identifier, extracted>>

cmdlineVars == <<executable, options, propertyfile, input_files, _uses_propertyfile, cmdlines>>

toolVars == <<extractVars, cmdlineVars>>

otherVars == <<dumpVars, loadVars, collectVars, columnVars, toolVars>>

vars == <<pc, mergeVars, rows, rowsDiff, statVars, statsVars, otherVars>>

(***************************************************************************)
(* Bounds of the model.                                                    *)
(***************************************************************************)
MaxRunSets == 2      \* number of run sets (result files)
NumTasks == 2        \* number of distinct task ids
MaxRuns == 4         \* number of run tags in all result files together
MaxRows == 2         \* number of rows of the table given to the diff filter
MaxResults == 4      \* number of run results of that table
MaxLen == 3          \* length of the list given to StatValue.from_list
MaxValue == 1        \* largest finite value in that list
MaxRunResults == 3   \* number of run results given to get_stats_of_run_set
MaxFiles == 3        \* number of result files given to load_results
MaxRunTags == 2      \* number of run tags of the result file given to collect_data
MaxColumnTags == 4   \* number of column tags of the result file given to column discovery
NumUnionTasks == 3   \* number of distinct task ids in the study of the insertions of merge_tasks
MaxOptions == 2      \* length of the list of options given to cmdline
MaxCalls == 2        \* number of successive calls of cmdline
MaxChars == 5        \* number of characters of the log file given to get_value_from_output

Tasks == 1..NumTasks

(***************************************************************************)
(* Python values.                                                          *)
(***************************************************************************)
None == "None"

CATEGORY_CORRECT == "correct"
CATEGORY_MISSING == "missing"

Range(s) == {s[k] : k \in DOMAIN s}

Min(S) == CHOOSE x \in S : \A y \in S : x <= y

(***************************************************************************)
(* RunResult.__init__.  obj stands for the identity of the Python object:  *)
(* 0 for an object created during reconciliation.                          *)
(***************************************************************************)
RunResult(task_id, status, category, score, log_file, columns, values, columns_relevant_for_diff, obj) ==
    [task_id |-> task_id, sourcefiles_exist |-> TRUE, status |-> status,
     log_file |-> log_file, columns |-> columns, values |-> values,
     category |-> category, score |-> score,
     columns_relevant_for_diff |-> columns_relevant_for_diff, obj |-> obj]

\* RunSetResult.get_tasks
get_tasks(runset) == [k \in DOMAIN runset.results |-> runset.results[k].task_id]

\* list[i] = x in the place of list.insert(i, x)
ListInsert_overwrite(list, i, x) ==
    IF i >= Len(list) THEN Append(list, x)
    ELSE [list EXCEPT ![i + 1] = x]

\* list.insert(i, x) of Python for i >= 0 (0-based; appends when i >= len)
ListInsert(list, i, x) ==
    IF i >= Len(list) THEN Append(list, x)
    ELSE SubSeq(list, 1, i) \o <<x>> \o SubSeq(list, i + 1, Len(list))

\* list.index(x) of Python (0-based), for x in list
ListIndex(list, x) == Min({k \in DOMAIN list : list[k] = x}) - 1

(***************************************************************************)
(* The run sets handed to the reconciliation by main(): run set i has the  *)
(* first i titles of MAIN_COLUMNS as its column list, and one RunResult    *)
(* per run tag, in file order.  A task may occur more than once.           *)
(***************************************************************************)
MAIN_COLUMNS == <<"status", "category", "cputime", "walltime", "memUsage", "cpuenergy">>

\* a Column with its title and, as set by collect_data, its type
Column(title, type) == [title |-> title, type |-> type]

\* the type of a column without extraction pattern
get_column_type(title) ==
    IF title = "status" THEN "main_status"
    ELSE IF title = "category" THEN "text"
    ELSE "decimal"

ColumnsOf(i) ==
    [c \in 1..(((i - 1) % Len(MAIN_COLUMNS)) + 1) |->
        Column(MAIN_COLUMNS[c], get_column_type(MAIN_COLUMNS[c]))]

Titles(columns) == {columns[c].title : c \in DOMAIN columns}

RECURSIVE SumUpTo(_, _)
SumUpTo(lens, i) == IF i = 0 THEN 0 ELSE lens[i] + SumUpTo(lens, i - 1)

\* the task lists of lens[i] tasks each, cut out of the sequence flat
Split(flat, lens) ==
    [i \in DOMAIN lens |-> SubSeq(flat, SumUpTo(lens, i - 1) + 1, SumUpTo(lens, i))]

LoadedResult(i, k, task) ==
    RunResult(task, "true", CATEGORY_CORRECT, 1, "log", ColumnsOf(i),
              [c \in DOMAIN ColumnsOf(i) |->
                    IF ColumnsOf(i)[c].title = "status" THEN "true"
                    ELSE IF ColumnsOf(i)[c].title = "category" THEN CATEGORY_CORRECT
                    ELSE "1"],
              {}, i * (MaxRuns + 1) + k)

LoadedRunSet(i, tasks) ==
    [columns |-> ColumnsOf(i),
     results |-> [k \in DOMAIN tasks |-> LoadedResult(i, k, tasks[k])]]

\* the run sets as the loaders return them
Loaded == [i \in DOMAIN input |-> LoadedRunSet(i, input[i])]

(***************************************************************************)
(* merge_tasks: the body of the inner loop for one task of a run set.      *)
(***************************************************************************)
\* merge_tasks_task without the test "task not in task_set"
merge_tasks_task_no_set_test(tl, ts, idx, cur, task) ==
    IF task \in cur
    THEN [task_list |-> tl, task_set |-> ts, index |-> idx,
          currentresult_taskset |-> cur]
    ELSE [task_list |-> ListInsert(tl, idx + 1, task),
          task_set |-> ts \cup {task}, index |-> idx + 1,
          currentresult_taskset |-> cur \cup {task}]

\* merge_tasks_task without "index = task_list.index(task)"
merge_tasks_task_stale_index(tl, ts, idx, cur, task) ==
    IF task \in cur
    THEN [task_list |-> tl, task_set |-> ts, index |-> idx,
          currentresult_taskset |-> cur]
    ELSE IF task \notin ts
         THEN [task_list |-> ListInsert(tl, idx + 1, task),
               task_set |-> ts \cup {task}, index |-> idx + 1,
               currentresult_taskset |-> cur \cup {task}]
         ELSE [task_list |-> tl, task_set |-> ts, index |-> idx,
               currentresult_taskset |-> cur \cup {task}]

merge_tasks_task(tl, ts, idx, cur, task) ==
    IF task \in cur
    THEN \* "Task is present twice, skipping it."
         [task_list |-> tl, task_set |-> ts, index |-> idx,
          currentresult_taskset |-> cur]
    ELSE IF task \notin ts
         THEN [task_list |-> ListInsert(tl, idx + 1, task),
               task_set |-> ts \cup {task}, index |-> idx + 1,
               currentresult_taskset |-> cur \cup {task}]
         ELSE [task_list |-> tl, task_set |-> ts,
               index |-> ListIndex(tl, task),
               currentresult_taskset |-> cur \cup {task}]

(***************************************************************************)
(* merge_task_lists: every run set gets one result per task of tasks, in   *)
(* the order of tasks; dic maps a task id to its first instance.           *)
(***************************************************************************)
\* dummy_result with a value list as long as the column list of the first result
dummy_result_short(task, runset) ==
    RunResult(task, None, CATEGORY_MISSING, 0, None, runset.columns,
              [c \in 1..(Len(runset.columns) - 1) |-> None], {}, 0)

dummy_result(task, runset) ==
    RunResult(task, None, CATEGORY_MISSING, 0, None, runset.columns,
              [c \in 1..Len(runset.columns) |-> None], {}, 0)

dic(runset) ==
    [task \in Range(get_tasks(runset)) |->
        runset.results[Min({k \in DOMAIN runset.results :
                               runset.results[k].task_id = task})]]

merge_task_lists(runset_results, tasks) ==
    [i \in DOMAIN runset_results |->
        [runset_results[i] EXCEPT !.results =
            [k \in DOMAIN tasks |->
                IF tasks[k] \notin DOMAIN dic(runset_results[i])
                THEN dummy_result(tasks[k], runset_results[i])
                ELSE dic(runset_results[i])[tasks[k]]]]]

(***************************************************************************)
(* find_common_tasks                                                       *)
(***************************************************************************)
\* common_task_set that skips the last run set
RECURSIVE common_task_set_skip_last(_, _, _)
common_task_set_skip_last(runset_results, i, acc) ==
    IF i >= Len(runset_results) THEN acc
    ELSE common_task_set_skip_last(runset_results, i + 1,
                                   acc \cap Range(get_tasks(runset_results[i])))

RECURSIVE common_task_set(_, _, _)
common_task_set(runset_results, i, acc) ==
    IF i > Len(runset_results) THEN acc
    ELSE common_task_set(runset_results, i + 1,
                         acc \cap Range(get_tasks(runset_results[i])))

common_task_list(tasks_in_first_runset, ts) ==
    SelectSeq(tasks_in_first_runset, LAMBDA task : task \in ts)

(***************************************************************************)
(* get_rows with Row.__init__: zip stops at the shortest result list; the  *)
(* assertions of Row fail when a row is empty or mixes task ids.           *)
(***************************************************************************)
zip_results(runset_results) ==
    LET n == Min({Len(runset_results[i].results) : i \in DOMAIN runset_results})
    IN  [r \in 1..n |-> [i \in DOMAIN runset_results |-> runset_results[i].results[r]]]

Row_asserts(results) ==
    /\ Len(results) > 0
    /\ Cardinality({results[i].task_id : i \in DOMAIN results}) = 1

\* the variables of the functions that are not under study have fixed values
MergeIdle ==
    /\ common = FALSE
    /\ input = <<>>
    /\ runSetResults = <<>>
    /\ task_list = <<>>
    /\ task_set = {}
    /\ rs = 1
    /\ pos = 1
    /\ index = -1
    /\ currentresult_taskset = {}

StatIdle ==
    /\ valueList = <<>>
    /\ stat = <<>>

StatsIdle ==
    /\ runResults = <<>>
    /\ correct_only = FALSE
    /\ stats = <<>>

DumpIdle ==
    /\ ignoreFlappingTimeouts = FALSE
    /\ regressions = 0
    /\ countsList = <<>>

LoadIdle ==
    /\ result_files = <<>>
    /\ ignore_errors = FALSE
    /\ futures = <<>>
    /\ finished = <<>>
    /\ gathered = <<>>
    /\ loaded = <<>>
    /\ statsList = <<>>

CollectIdle ==
    /\ toolmodule = None
    /\ xml_results = <<>>
    /\ listOfColumns = <<>>
    /\ self_results = <<>>
    /\ run_no = 1
    /\ col_no = 1
    /\ run_values = <<>>
    /\ run_sources = <<>>
    /\ logfileLines = None
    /\ log_zip_cache = {}
    /\ loaded_tools = <<>>
    /\ load_attempts = <<>>
    /\ io = <<>>

ColumnIdle ==
    /\ run_tags_exist = FALSE
    /\ column_tags = <<>>
    /\ all_columns = FALSE
    /\ existing_columns = <<>>

ExtractIdle ==
    /\ log_text = <<>>
    /\ identifier = <<>>
    /\ extracted = <<>>

CmdlineIdle ==
    /\ executable = "None"
    /\ options = <<>>
    /\ propertyfile = "None"
    /\ input_files = <<>>
    /\ _uses_propertyfile = FALSE
    /\ cmdlines = <<>>

ToolIdle ==
    /\ ExtractIdle
    /\ CmdlineIdle

OtherIdle ==
    /\ DumpIdle
    /\ LoadIdle
    /\ CollectIdle
    /\ ColumnIdle
    /\ ToolIdle

(***************************************************************************)
(* Actions of main(): reconciliation and row building.                     *)
(***************************************************************************)
MergeInit ==
    /\ pc = "main"
    /\ common \in BOOLEAN
    /\ \E n \in 1..MaxRunSets : \E lens \in [1..n -> 0..MaxRuns] :
          /\ SumUpTo(lens, n) <= MaxRuns
          /\ \E flat \in [1..SumUpTo(lens, n) -> Tasks] : input = Split(flat, lens)
    /\ runSetResults = Loaded
    /\ task_list = <<>>
    /\ task_set = {}
    /\ rs = 1
    /\ pos = 1
    /\ index = -1
    /\ currentresult_taskset = {}
    /\ rows = <<>>
    /\ rowsDiff = <<>>
    /\ StatIdle
    /\ StatsIdle
    /\ OtherIdle

\* merge_tasks is entered: task_list = [], task_set = set(), first run set
merge_tasks_enter ==
    /\ pc = "main"
    /\ ~common
    /\ pc' = "merge_tasks"
    /\ task_list' = <<>>
    /\ task_set' = {}
    /\ rs' = 1
    /\ pos' = 1
    /\ index' = -1
    /\ currentresult_taskset' = {}
    /\ UNCHANGED <<common, input, runSetResults, rows>>
    /\ UNCHANGED <<rowsDiff, statVars, statsVars, otherVars>>

\* one iteration of "for task in runset.get_tasks()"
merge_tasks_inner ==
    /\ pc = "merge_tasks"
    /\ rs <= Len(runSetResults)
    /\ pos <= Len(runSetResults[rs].results)
    /\ LET r == merge_tasks_task(task_list, task_set, index, currentresult_taskset,
                                 runSetResults[rs].results[pos].task_id)
       IN  /\ task_list' = r.task_list
           /\ task_set' = r.task_set
           /\ index' = r.index
           /\ currentresult_taskset' = r.currentresult_taskset
    /\ pos' = pos + 1
    /\ UNCHANGED <<pc, common, input, runSetResults, rs, rows>>
    /\ UNCHANGED <<rowsDiff, statVars, statsVars, otherVars>>

\* the next iteration of "for runset in runset_results"
merge_tasks_outer ==
    /\ pc = "merge_tasks"
    /\ rs <= Len(runSetResults)
    /\ pos > Len(runSetResults[rs].results)
    /\ rs' = rs + 1
    /\ pos' = 1
    /\ index' = -1
    /\ currentresult_taskset' = {}
    /\ UNCHANGED <<pc, common, input, runSetResults, task_list, task_set, rows>>
    /\ UNCHANGED <<rowsDiff, statVars, statsVars, otherVars>>

\* the loops are done: merge_task_lists(runset_results, task_list)
merge_tasks_return ==
    /\ pc = "merge_tasks"
    /\ rs > Len(runSetResults)
    /\ runSetResults' = merge_task_lists(runSetResults, task_list)
    /\ pc' = "merged"
    /\ UNCHANGED <<common, input, task_list, task_set, rs, pos, index,
                   currentresult_taskset, rows>>
    /\ UNCHANGED <<rowsDiff, statVars, statsVars, otherVars>>

find_common_tasks ==
    /\ pc = "main"
    /\ common
    /\ LET tasks_in_first_runset == get_tasks(runSetResults[1])
           ts == common_task_set(runSetResults, 1, Range(tasks_in_first_runset))
       IN  /\ task_set' = ts
           /\ IF ts = {}
              THEN \* "No tasks are present in all benchmark results."
                   /\ task_list' = <<>>
                   /\ UNCHANGED runSetResults
              ELSE /\ task_list' = common_task_list(tasks_in_first_runset, ts)
                   /\ runSetResults' =
                         merge_task_lists(runSetResults,
                                          common_task_list(tasks_in_first_runset, ts))
    /\ pc' = "merged"
    /\ UNCHANGED <<common, input, rs, pos, index, currentresult_taskset, rows>>
    /\ UNCHANGED <<rowsDiff, statVars, statsVars, otherVars>>

get_rows ==
    /\ pc = "merged"
    /\ IF \A r \in DOMAIN zip_results(runSetResults) :
             Row_asserts(zip_results(runSetResults)[r])
       THEN /\ rows' = zip_results(runSetResults)
            /\ pc' = "rows"
       ELSE \* AssertionError: "not all results are for same task"
            /\ pc' = "AssertionError"
            /\ UNCHANGED rows
    /\ UNCHANGED <<common, input, runSetResults, task_list, task_set, rs, pos, index,
                   currentresult_taskset>>
    /\ UNCHANGED <<rowsDiff, statVars, statsVars, otherVars>>

MergeNext ==
    \/ merge_tasks_enter
    \/ merge_tasks_inner
    \/ merge_tasks_outer
    \/ merge_tasks_return
    \/ find_common_tasks
    \/ get_rows

Spec == MergeInit /\ [][MergeNext]_vars

(***************************************************************************)
(* Properties of the reconciliation.                                       *)
(***************************************************************************)
InputTasks(i) == get_tasks(Loaded[i])

AllInputTasks == UNION {Range(InputTasks(i)) : i \in DOMAIN input}

RECURSIVE IsSubseq(_, _)
IsSubseq(a, b) ==
    IF a = <<>> THEN TRUE
    ELSE IF b = <<>> THEN FALSE
    ELSE IF Head(a) = Head(b) THEN IsSubseq(Tail(a), Tail(b))
    ELSE IsSubseq(a, Tail(b))

\* s without the later occurrences of its elements
RECURSIVE Dedup(_)
Dedup(s) ==
    IF s = <<>> THEN <<>>
    ELSE LET d == Dedup(SubSeq(s, 1, Len(s) - 1))
         IN  IF s[Len(s)] \in Range(d) THEN d ELSE Append(d, s[Len(s)])

NoRepetition(s) == \A k1, k2 \in DOMAIN s : s[k1] = s[k2] => k1 = k2

PosIn(s, x) == Min({k \in DOMAIN s : s[k] = x})

\* C1: after merge_tasks the canonical task list contains every task id that
\* occurs in at least one run set, and each of them exactly once, also when a
\* run set lists a task twice.
C1_UnionEveryTaskOnce ==
    (pc = "merged" /\ ~common) =>
        /\ Range(task_list) = AllInputTasks
        /\ NoRepetition(task_list)

C1_Witness ==
    /\ pc = "merged"
    /\ ~common
    /\ Len(input) >= 2
    /\ \E i \in DOMAIN input : ~NoRepetition(InputTasks(i))
    /\ Len(task_list) >= 2

\* C2 as stated: after merge_tasks the duplicate-free task order of every run
\* set is a subsequence of the canonical task order.
C2_EveryRunSetSubsequence ==
    (pc = "merged" /\ ~common) =>
        \A i \in DOMAIN input : IsSubseq(Dedup(InputTasks(i)), task_list)

\* C2 amended: after merge_tasks the duplicate-free task order of the first
\* run set is a subsequence of the canonical order, and in every run set each
\* task that no earlier run set contains comes after its predecessor (in the
\* duplicate-free order of that run set) in the canonical order.
C2_FirstOrderAndPredecessor ==
    (pc = "merged" /\ ~common) =>
        /\ IsSubseq(Dedup(InputTasks(1)), task_list)
        /\ \A i \in DOMAIN input :
              LET d == Dedup(InputTasks(i))
              IN  \A k \in 2..Len(d) :
                    (\A j \in 1..(i - 1) : d[k] \notin Range(InputTasks(j))) =>
                        PosIn(task_list, d[k - 1]) < PosIn(task_list, d[k])

C2_Witness ==
    /\ pc = "merged"
    /\ ~common
    /\ Len(input) >= 2
    /\ LET d == Dedup(InputTasks(2))
       IN  /\ Len(d) >= 2
           /\ d[1] \in Range(InputTasks(1))
           /\ d[2] \notin Range(InputTasks(1))

\* C3 as stated, for run sets that list no task twice: after find_common_tasks
\* the task list consists exactly of the tasks present in every run set and is
\* a subsequence of the task list of every run set.
C3_CommonSubsequenceOfAll ==
    (pc = "merged" /\ common /\ \A i \in DOMAIN input : NoRepetition(InputTasks(i))) =>
        /\ Range(task_list) = {t \in Tasks : \A i \in DOMAIN input : t \in Range(InputTasks(i))}
        /\ \A i \in DOMAIN input : IsSubseq(task_list, InputTasks(i))

\* C3 amended: after find_common_tasks the task list consists exactly of the
\* tasks present in every run set and is a subsequence of the task list of the
\* first run set.
C3_CommonSubsequenceOfFirst ==
    (pc = "merged" /\ common) =>
        /\ Range(task_list) = {t \in Tasks : \A i \in DOMAIN input : t \in Range(InputTasks(i))}
        /\ IsSubseq(task_list, InputTasks(1))

C3_Witness ==
    /\ pc = "merged"
    /\ common
    /\ Len(input) >= 2
    /\ task_list # <<>>
    /\ Range(task_list) # Range(InputTasks(1))

\* C4: after reconciliation in either mode all run sets hold result lists of
\* the same length whose i-th entries have the same task id, no assertion of
\* Row fails, and every row has one result per run set, all of one task id.
C4_RowsAligned ==
    /\ pc # "AssertionError"
    /\ pc \in {"merged", "rows"} =>
          \A i, j \in DOMAIN runSetResults :
              /\ Len(runSetResults[i].results) = Len(runSetResults[j].results)
              /\ \A k \in DOMAIN runSetResults[i].results :
                    k \in DOMAIN runSetResults[j].results =>
                        runSetResults[i].results[k].task_id =
                            runSetResults[j].results[k].task_id
    /\ pc = "rows" =>
          \A r \in DOMAIN rows :
              /\ Len(rows[r]) = Len(runSetResults)
              /\ \A i, j \in DOMAIN rows[r] : rows[r][i].task_id = rows[r][j].task_id

\* C5: after merge_tasks every run set holds, for a task of the canonical list
\* it did not contain, a result with category missing, status null, score 0
\* and as many null values as the run set has columns, and for a task it did
\* contain one of its original RunResult objects, unchanged.
C5_MissingTaskFill ==
    (pc = "merged" /\ ~common) =>
        \A i \in DOMAIN runSetResults :
            /\ Len(runSetResults[i].results) = Len(task_list)
            /\ \A k \in DOMAIN runSetResults[i].results :
                  LET r == runSetResults[i].results[k]
                  IN  /\ r.task_id = task_list[k]
                      /\ IF task_list[k] \in Range(InputTasks(i))
                         THEN r \in Range(Loaded[i].results)
                         ELSE /\ r.category = "missing"
                              /\ r.status = None
                              /\ r.score = 0
                              /\ Len(r.values) = Len(runSetResults[i].columns)
                              /\ \A c \in DOMAIN r.values : r.values[c] = None

C5_Witness ==
    /\ pc = "merged"
    /\ ~common
    /\ \E i \in DOMAIN runSetResults : \E k1, k2 \in DOMAIN runSetResults[i].results :
          /\ runSetResults[i].results[k1].category = "missing"
          /\ Len(runSetResults[i].columns) >= 2
          /\ runSetResults[i].results[k2] \in Range(Loaded[i].results)

\* C6: after reconciliation in either mode no run set holds two results with
\* the same task id, and a result kept for a task that the run set listed
\* more than once is the first instance.
C6_NoDuplicateTasks ==
    pc = "merged" =>
        \A i \in DOMAIN runSetResults :
            /\ NoRepetition(get_tasks(runSetResults[i]))
            /\ \A k \in DOMAIN runSetResults[i].results :
                  LET r == runSetResults[i].results[k]
                  IN  r \in Range(Loaded[i].results) =>
                        r = Loaded[i].results[PosIn(InputTasks(i), r.task_id)]

(***************************************************************************)
(* filter_rows_with_differences                                            *)
(***************************************************************************)
\* get_index_of_column (0-based, -1 when no column has the title)
get_index_of_column(name, cols) ==
    IF \E i \in DOMAIN cols : cols[i].title = name
    THEN Min({i \in DOMAIN cols : cols[i].title = name}) - 1
    ELSE -1

\* the subscription list[i] of Python: a negative i counts from the end
Subscript(list, i) == IF i >= 0 THEN list[i + 1] ELSE list[Len(list) + i + 1]

\* list[i] raises IndexError
SubscriptRaises(list, i) == i >= Len(list) \/ i < 0 - Len(list)

relevant_columns(listOfResults) ==
    LET declared == UNION {listOfResults[i].columns_relevant_for_diff :
                              i \in DOMAIN listOfResults}
    IN  IF declared = {} THEN {"status"} ELSE declared

\* all_equal_result that compares the status column only
all_equal_result_status_only(listOfResults) ==
    Cardinality({Subscript(listOfResults[i].values,
                           get_index_of_column("status", listOfResults[i].columns)) :
                    i \in DOMAIN listOfResults}) <= 1

all_equal_result(listOfResults) ==
    \A col \in relevant_columns(listOfResults) :
        Cardinality({Subscript(listOfResults[i].values,
                               get_index_of_column(col, listOfResults[i].columns)) :
                        i \in DOMAIN listOfResults}) <= 1

all_equal_result_raises(listOfResults) ==
    \E col \in relevant_columns(listOfResults) : \E i \in DOMAIN listOfResults :
        SubscriptRaises(listOfResults[i].values,
                        get_index_of_column(col, listOfResults[i].columns))

\* the rows of a table: run set i has the column list cols[i]; cells[r][i]
\* is <<0, 0>> for a result that merge_task_lists filled in and selects the
\* values of a loaded result otherwise
DiffColumnLists ==
    {<<>>,
     <<Column("status", "main_status")>>,
     <<Column("cputime", "decimal")>>,
     <<Column("cputime", "decimal"), Column("status", "main_status")>>}

DiffRelevant == {{}, {"status"}, {"cputime"}}

DiffValue(title, v) ==
    IF title = "status"
    THEN (IF v = 1 THEN "true" ELSE "false(unreach-call)")
    ELSE (IF v = 1 THEN "1" ELSE "2")

DiffCells == {<<0, 0>>} \cup ({1, 2} \X {1, 2})

DiffResult(r, i, cols, rel, cell) ==
    IF cell = <<0, 0>>
    THEN dummy_result(r, [columns |-> cols])
    ELSE LET vals == [c \in DOMAIN cols |-> DiffValue(cols[c].title, cell[c])]
         IN  RunResult(r,
                       IF "status" \in Titles(cols)
                       THEN vals[get_index_of_column("status", cols) + 1] ELSE "",
                       CATEGORY_CORRECT, 1, "log", cols, vals, rel, i * (MaxRuns + 1) + r)

DiffInit ==
    /\ pc = "rows"
    /\ MergeIdle
    /\ \E n \in 1..MaxRunSets : \E m \in 0..MaxRows :
          /\ n * m <= MaxResults
          /\ \E cols \in [1..n -> DiffColumnLists] : \E rel \in DiffRelevant :
                \E cells \in [1..m -> [1..n -> DiffCells]] :
                    rows = [r \in 1..m |->
                              [i \in 1..n |-> DiffResult(r, i, cols[i], rel, cells[r][i])]]
    /\ rowsDiff = <<>>
    /\ StatIdle
    /\ StatsIdle
    /\ OtherIdle

filter_rows_with_differences ==
    /\ pc = "rows"
    /\ IF rows = <<>>
       THEN \* empty table
            /\ rowsDiff' = <<>>
            /\ pc' = "diff"
       ELSE IF Len(rows[1]) = 1
       THEN \* table with single column
            /\ rowsDiff' = <<>>
            /\ pc' = "diff"
       ELSE IF \E r \in DOMAIN rows : all_equal_result_raises(rows[r])
       THEN /\ pc' = "IndexError"
            /\ UNCHANGED rowsDiff
       ELSE /\ rowsDiff' =
                  (IF Len(SelectSeq(rows, LAMBDA row : ~all_equal_result(row))) = Len(rows)
                   THEN \* "DIFFERENCES FOUND IN ALL ROWS, NO NEED TO CREATE DIFFERENCE TABLE"
                        <<>>
                   ELSE SelectSeq(rows, LAMBDA row : ~all_equal_result(row)))
            /\ pc' = "diff"
    /\ UNCHANGED <<mergeVars, rows, statVars, statsVars, otherVars>>

DiffNext == filter_rows_with_differences

SpecDiff == DiffInit /\ [][DiffNext]_vars

(***************************************************************************)
(* Properties of the diff filter.                                          *)
(***************************************************************************)
\* the titles that are relevant for the diff of a row
RelevantTitles(row) ==
    IF \A i \in DOMAIN row : row[i].columns_relevant_for_diff = {}
    THEN {"status"}
    ELSE {t \in {"status", "cputime"} :
             \E i \in DOMAIN row : t \in row[i].columns_relevant_for_diff}

\* the value of a result in the column with a title; the last value of the
\* result when its column list has no column with the title (null when the
\* result has no value at all)
CellOf(res, title) ==
    IF title \in Titles(res.columns)
    THEN res.values[Min({c \in DOMAIN res.columns : res.columns[c].title = title})]
    ELSE IF res.values = <<>> THEN None
    ELSE res.values[Len(res.values)]

Disagrees(row) ==
    \E t \in RelevantTitles(row) : \E i, j \in DOMAIN row :
        CellOf(row[i], t) # CellOf(row[j], t)

\* the rows of the table that are in the output, in the order of the table
InOutput(r) == \E k \in DOMAIN rowsDiff : rowsDiff[k] = rows[r]

NoneV == <<"None", 0, 1>>

nan == <<"nan", 0, 1>>

inf == <<"inf", 1, 1>>

neg_inf == <<"inf", -1, 1>>

InvalidOperation == <<"InvalidOperation", 0, 1>>

Abs(n) == IF n < 0 THEN 0 - n ELSE n

RECURSIVE GCD(_, _)
GCD(a, b) == IF b = 0 THEN a ELSE GCD(b, a % b)

\* the decimal n/d (d # 0) in lowest terms with a positive denominator
Decimal(n, d) ==
    LET g == GCD(Abs(n), Abs(d))
    IN  <<"num", (IF d < 0 THEN 0 - n ELSE n) \div g, Abs(d) \div g>>

isnan(v) == v[1] = "nan"

IsFinite(v) == v[1] = "num"

\* a + b; Decimal raises InvalidOperation for Infinity + -Infinity
Add(a, b) ==
    IF IsFinite(a) /\ IsFinite(b) THEN Decimal(a[2] * b[3] + b[2] * a[3], a[3] * b[3])
    ELSE IF IsFinite(a) THEN b
    ELSE IF IsFinite(b) THEN a
    ELSE IF a = b THEN a
    ELSE InvalidOperation

Sub(a, b) == Decimal(a[2] * b[3] - b[2] * a[3], a[3] * b[3])

Mul(a, b) == Decimal(a[2] * b[2], a[3] * b[3])

\* a / k for an integer k > 0
Div(a, k) ==
    IF IsFinite(a) THEN Decimal(a[2], a[3] * k) ELSE a

\* a < b for values that are neither None nor nan
Lt(a, b) ==
    IF IsFinite(a) /\ IsFinite(b) THEN a[2] * b[3] < b[2] * a[3]
    ELSE IF IsFinite(a) THEN b = inf
    ELSE IF IsFinite(b) THEN a = neg_inf
    ELSE a = neg_inf /\ b = inf

IsSquare(n) == \E k \in 0..n : k * k = n

Root(n) == CHOOSE k \in 0..n : k * k = n

\* Decimal.sqrt of a finite a >= 0
sqrt(a) ==
    IF IsSquare(a[2]) /\ IsSquare(a[3]) THEN Decimal(Root(a[2]), Root(a[3]))
    ELSE <<"sqrt", a[2], a[3]>>

(***************************************************************************)
(* StatValue                                                               *)
(***************************************************************************)
\* StatValue.__init__
StatValue(sum, min, max, avg, median, stdev) ==
    [sum |-> sum, min |-> min, max |-> max, avg |-> avg, median |-> median,
     stdev |-> stdev]

\* StatValue(sum) with zeros for the arguments that are left out
StatValueOfSum_zeros(sum) == StatValue(sum, Decimal(0, 1), Decimal(0, 1), Decimal(0, 1), Decimal(0, 1), Decimal(0, 1))

\* StatValue(sum): the other arguments default to None
StatValueOfSum(sum) == StatValue(sum, NoneV, NoneV, NoneV, NoneV, NoneV)

\* the values that are not None, in the order of the list
DropNone(values) == SelectSeq(values, LAMBDA v : v # NoneV)

RECURSIVE InsertSorted(_, _)
InsertSorted(s, v) ==
    IF s = <<>> THEN <<v>>
    ELSE IF Lt(v, Head(s)) THEN <<v>> \o s
    ELSE <<Head(s)>> \o InsertSorted(Tail(s), v)

\* sorted() that leaves the list as it is
sorted_not(s) == s

\* sorted(): ascending
RECURSIVE sorted(_)
sorted(s) == IF s = <<>> THEN <<>> ELSE InsertSorted(sorted(Tail(s)), Head(s))

\* sum() of finite values
RECURSIVE SumOf(_)
SumOf(s) == IF s = <<>> THEN Decimal(0, 1) ELSE Add(Head(s), SumOf(Tail(s)))

\* the sum of the squares of the differences to mean
RECURSIVE SquaresOf(_, _)
SquaresOf(s, mean) ==
    IF s = <<>> THEN Decimal(0, 1)
    ELSE Add(Mul(Sub(Head(s), mean), Sub(Head(s), mean)), SquaresOf(Tail(s), mean))

\* the median of the sorted, non-empty list: divmod(values_len, 2)
median_of(values) ==
    LET half == Len(values) \div 2
        len_is_odd == Len(values) % 2
    IN  IF len_is_odd # 0 THEN values[half + 1]
        ELSE IF Add(values[half], values[half + 1]) = InvalidOperation
        THEN InvalidOperation
        ELSE Div(Add(values[half], values[half + 1]), 2)

\* StatValue.from_list; every field is InvalidOperation when the exception
\* of that name leaves the function
from_list(valueArgs) ==
    IF \E k \in DOMAIN valueArgs : valueArgs[k] # NoneV /\ isnan(valueArgs[k])
    THEN StatValue(nan, nan, nan, nan, nan, nan)
    ELSE LET values == sorted(DropNone(valueArgs))
         IN  IF values = <<>> THEN StatValueOfSum(Decimal(0, 1))
             ELSE LET values_len == Len(values)
                      min_value == values[1]
                      max_value == values[Len(values)]
                      sms == IF min_value = neg_inf /\ max_value = inf
                             THEN <<nan, nan, nan>>
                             ELSE IF max_value = inf THEN <<inf, inf, inf>>
                             ELSE IF min_value = neg_inf THEN <<neg_inf, neg_inf, inf>>
                             ELSE <<SumOf(values),
                                    Div(SumOf(values), values_len),
                                    sqrt(Div(SquaresOf(values, Div(SumOf(values), values_len)),
                                             values_len))>>
                  IN  IF median_of(values) = InvalidOperation
                      THEN StatValue(InvalidOperation, InvalidOperation, InvalidOperation,
                                     InvalidOperation, InvalidOperation, InvalidOperation)
                      ELSE StatValue(sms[1], min_value, max_value, sms[2],
                                     median_of(values), sms[3])

\* the values given to from_list: None, nan, the infinities and the
\* integers from -1 to MaxValue
StatInputs == {NoneV, nan, inf, neg_inf} \cup {Decimal(n, 1) : n \in (0 - 1)..MaxValue}

StatInit ==
    /\ pc = "from_list"
    /\ MergeIdle
    /\ rows = <<>>
    /\ rowsDiff = <<>>
    /\ \E n \in 0..MaxLen : valueList \in [1..n -> StatInputs]
    /\ stat = <<>>
    /\ StatsIdle
    /\ OtherIdle

\* StatValue.from_list(valueList)
from_list_call ==
    /\ pc = "from_list"
    /\ stat' = from_list(valueList)
    /\ pc' = "stat"
    /\ UNCHANGED <<mergeVars, rows, rowsDiff, valueList, statsVars, otherVars>>

\* StatValue.from_list on valueList with two neighbours exchanged
from_list_permuted ==
    /\ pc \in {"stat", "permuted"}
    /\ \E i \in 1..(Len(valueList) - 1) :
          /\ valueList[i] # valueList[i + 1]
          /\ valueList' = [valueList EXCEPT ![i] = valueList[i + 1],
                                            ![i + 1] = valueList[i]]
    /\ stat' = from_list(valueList')
    /\ pc' = "permuted"
    /\ UNCHANGED <<mergeVars, rows, rowsDiff, statsVars, otherVars>>

StatNext ==
    \/ from_list_call
    \/ from_list_permuted

SpecStat == StatInit /\ [][StatNext]_vars

(***************************************************************************)
(* Properties of StatValue.from_list.                                      *)
(***************************************************************************)
\* the positions of the list that hold a number
NumberAt == {k \in DOMAIN valueList : valueList[k] # NoneV}

AllFinite == \A k \in NumberAt : IsFinite(valueList[k])

RECURSIVE ExactSum(_)
ExactSum(K) ==
    IF K = {} THEN 0
    ELSE LET k == CHOOSE x \in K : TRUE
         IN  valueList[k][2] + ExactSum(K \ {k})

\* the value of rank k (from 0) among the numbers of the list
Ranked(k) ==
    CHOOSE v \in {valueList[j] : j \in NumberAt} :
        /\ Cardinality({j \in NumberAt : Lt(valueList[j], v)}) <= k
        /\ Cardinality({j \in NumberAt : ~Lt(v, valueList[j])}) > k

\* C8: from_list on a list that is empty after dropping the nulls returns
\* sum 0 and null for min, max, avg, median and stdev.
C8_EmptyStatValue ==
    (pc \in {"stat", "permuted"} /\ NumberAt = {}) =>
        /\ stat.sum = Decimal(0, 1)
        /\ stat.min = NoneV
        /\ stat.max = NoneV
        /\ stat.avg = NoneV
        /\ stat.median = NoneV
        /\ stat.stdev = NoneV

C8_Witness ==
    /\ pc = "stat"
    /\ Len(valueList) >= 2
    /\ NumberAt = {}
    /\ stat.sum = Decimal(0, 1)

\* the stated values of the fields for a list of finite values and nulls
C9_FieldValues ==
    (pc \in {"stat", "permuted"} /\ AllFinite /\ NumberAt # {}) =>
        LET n == Cardinality(NumberAt)
        IN  /\ stat.min \in {valueList[k] : k \in NumberAt}
            /\ \A k \in NumberAt : ~Lt(valueList[k], stat.min)
            /\ stat.max \in {valueList[k] : k \in NumberAt}
            /\ \A k \in NumberAt : ~Lt(stat.max, valueList[k])
            /\ stat.sum = Decimal(ExactSum(NumberAt), 1)
            /\ stat.median = IF n % 2 = 1 THEN Ranked(n \div 2)
                             ELSE Div(Add(Ranked(n \div 2 - 1), Ranked(n \div 2)), 2)

\* a call of from_list on a permutation returns the same fields
C9_SameOnPermutation ==
    (pc \in {"stat", "permuted"} /\ pc' = "permuted" /\ AllFinite) =>
        /\ stat'.sum = stat.sum
        /\ stat'.min = stat.min
        /\ stat'.max = stat.max
        /\ stat'.avg = stat.avg
        /\ stat'.median = stat.median

\* C9: from_list is independent of the order of a list of finite values and
\* nulls: on every permutation of the list it returns the same sum, min, max,
\* avg and median; min is the smallest and max the largest value, sum the
\* exact sum, median the middle value for an odd number of values and the
\* mean of the two middle values for an even number.
C9_OrderIndependent == [][C9_SameOnPermutation]_vars /\ []C9_FieldValues

C9_Witness ==
    /\ pc = "permuted"
    /\ AllFinite
    /\ Len(valueList) = 3
    /\ Cardinality(NumberAt) = 2
    /\ valueList[2] = NoneV
    /\ Lt(valueList[3], valueList[1])
    /\ stat.min = valueList[3]
    /\ stat.median[3] = 2

(***************************************************************************)
(* get_stats_of_run_set                                                    *)
(***************************************************************************)
CATEGORY_CORRECT_UNCONFIRMED == "correct-unconfirmed"

CATEGORY_WRONG == "wrong"

CATEGORY_ERROR == "error"

RESULT_CLASS_TRUE == "true"

RESULT_CLASS_FALSE == "false"

RESULT_CLASS_OTHER == "other"

\* result.get_result_classification: the shape of a status
get_result_classification(status) ==
    IF status = "true" THEN RESULT_CLASS_TRUE
    ELSE IF status \in {"false", "false(unreach-call)"} THEN RESULT_CLASS_FALSE
    ELSE RESULT_CLASS_OTHER

\* str.lower() on the column titles of the model
lower(title) ==
    IF title = "Status" THEN "status"
    ELSE IF title = "Score" THEN "score"
    ELSE title

\* Util.to_decimal on the cell texts of the model
to_decimal(s) ==
    IF s = None THEN NoneV
    ELSE IF \E n \in 0..(MaxRunResults + 1) : ToString(n) = s
    THEN Decimal(CHOOSE n \in 0..(MaxRunResults + 1) : ToString(n) = s, 1)
    ELSE InvalidOperation

\* a cell of the statistics that is None
NoneCell == StatValue(NoneV, NoneV, NoneV, NoneV, NoneV, NoneV)

\* the status, category and score of a run in a result file
ResultKinds ==
    {<<"true", CATEGORY_CORRECT, 2>>,
     <<"false(unreach-call)", CATEGORY_CORRECT, 1>>,
     <<"true", CATEGORY_WRONG, 0 - 32>>,
     <<"false(unreach-call)", CATEGORY_WRONG, 0 - 16>>,
     <<"true", CATEGORY_CORRECT_UNCONFIRMED, 0>>,
     <<"", CATEGORY_ERROR, 0>>}

\* the column lists of a run set, typed as collect_data leaves them
StatsColumnLists ==
    {<<Column("status", "main_status")>>,
     <<Column("cputime", "decimal")>>,
     <<Column("status", "main_status"), Column("cputime", "decimal")>>,
     <<Column("cputime", "decimal"), Column("status", "main_status")>>,
     <<Column("status", "main_status"), Column("Status", "status")>>,
     <<Column("host", "text"), Column("status", "main_status")>>}

\* RunResult.create_from_xml for the r-th run of a result file
xml_result(kind, r, columns, correctOnly) ==
    RunResult(r, kind[1], kind[2], kind[3], "log", columns,
              [c \in DOMAIN columns |->
                    IF lower(columns[c].title) = "status" THEN kind[1]
                    ELSE IF ~correctOnly \/ kind[2] = CATEGORY_CORRECT
                    THEN (IF columns[c].title = "host" THEN "h" ELSE ToString(r))
                    ELSE None],
              {}, r)

\* a run result of the run set: from the result file, or the synthetic
\* result of a missing task
StatsResult(kind, r, columns, correctOnly) ==
    IF kind = <<>> THEN dummy_result(r, [columns |-> columns])
    ELSE xml_result(kind, r, columns, correctOnly)

\* status_col_index after the loop over the columns (0-based)
status_col_index(columns) ==
    IF \E c \in DOMAIN columns : columns[c].type = "main_status"
    THEN CHOOSE c \in 0..(Len(columns) - 1) :
            /\ columns[c + 1].type = "main_status"
            /\ \A d \in DOMAIN columns : columns[d].type = "main_status" => d <= c + 1
    ELSE 0

\* counts[category, classification] for the column at index (0-based)
counts(results, idx, category, classification) ==
    Cardinality({k \in DOMAIN results :
                    /\ results[k].category = category
                    /\ get_result_classification(results[k].values[idx + 1]) = classification})

RECURSIVE SumOfScores(_)
SumOfScores(results) ==
    IF results = <<>> THEN 0 ELSE Head(results).score + SumOfScores(Tail(results))

\* the eleven cells of a status or main_status column
stats_of_status_column(results, idx, col_type) ==
    LET countCorrectTrue == counts(results, idx, CATEGORY_CORRECT, RESULT_CLASS_TRUE)
        countCorrectFalse == counts(results, idx, CATEGORY_CORRECT, RESULT_CLASS_FALSE)
        countCorrectUnconfirmedTrue ==
            counts(results, idx, CATEGORY_CORRECT_UNCONFIRMED, RESULT_CLASS_TRUE)
        countCorrectUnconfirmedFalse ==
            counts(results, idx, CATEGORY_CORRECT_UNCONFIRMED, RESULT_CLASS_FALSE)
        countWrongTrue == counts(results, idx, CATEGORY_WRONG, RESULT_CLASS_TRUE)
        countWrongFalse == counts(results, idx, CATEGORY_WRONG, RESULT_CLASS_FALSE)
        Count(n) == StatValueOfSum(Decimal(n, 1))
    IN  <<Count(Cardinality({k \in DOMAIN results :
                                results[k].status # None /\ results[k].status # ""})),
          Count(countCorrectTrue + countCorrectFalse),
          Count(countCorrectTrue),
          Count(countCorrectFalse),
          Count(countCorrectUnconfirmedTrue + countCorrectUnconfirmedFalse),
          Count(countCorrectUnconfirmedTrue),
          Count(countCorrectUnconfirmedFalse),
          Count(countWrongTrue + countWrongFalse),
          Count(countWrongTrue),
          Count(countWrongFalse),
          IF col_type = "main_status" THEN Count(SumOfScores(results)) ELSE NoneCell>>

\* valuesPerCategory[category, classification]
RECURSIVE valuesPerCategory(_, _, _, _)
valuesPerCategory(values, categoryList, category, classification) ==
    IF values = <<>> THEN <<>>
    ELSE (IF /\ Head(categoryList)[2] # None
             /\ Head(categoryList)[1] = category
             /\ get_result_classification(Head(categoryList)[2]) = classification
          THEN <<Head(values)>> ELSE <<>>)
         \o valuesPerCategory(Tail(values), Tail(categoryList), category, classification)

get_stats_of_number_column(values, categoryList, correctOnly) ==
    LET valueArgs == [k \in DOMAIN values |-> to_decimal(values[k])]
        per(category, classification) ==
            valuesPerCategory(valueArgs, categoryList, category, classification)
        both(category) ==
            per(category, RESULT_CLASS_TRUE) \o per(category, RESULT_CLASS_FALSE)
        zero == StatValueOfSum(Decimal(0, 1))
    IN  IF \E k \in DOMAIN valueArgs : valueArgs[k] = InvalidOperation
        THEN <<zero, zero, zero, zero, zero, zero, zero, zero, zero, zero>>
        ELSE <<from_list(valueArgs),
               from_list(both(CATEGORY_CORRECT)),
               from_list(per(CATEGORY_CORRECT, RESULT_CLASS_TRUE)),
               from_list(per(CATEGORY_CORRECT, RESULT_CLASS_FALSE)),
               from_list(both(CATEGORY_CORRECT_UNCONFIRMED)),
               from_list(per(CATEGORY_CORRECT_UNCONFIRMED, RESULT_CLASS_TRUE)),
               from_list(per(CATEGORY_CORRECT_UNCONFIRMED, RESULT_CLASS_FALSE)),
               IF correctOnly THEN NoneCell ELSE from_list(both(CATEGORY_WRONG)),
               IF correctOnly THEN NoneCell
               ELSE from_list(per(CATEGORY_WRONG, RESULT_CLASS_TRUE)),
               IF correctOnly THEN NoneCell
               ELSE from_list(per(CATEGORY_WRONG, RESULT_CLASS_FALSE))>>

\* the eleven cells of the column at index (0-based), before the post-rule
stats_of_column(results, idx, correctOnly) ==
    LET column == results[1].columns[idx + 1]
    IN  IF column.type = "text"
        THEN [i \in 1..11 |-> NoneCell]
        ELSE IF column.type \in {"main_status", "status"}
        THEN stats_of_status_column(results, idx, column.type)
        ELSE get_stats_of_number_column(
                 [k \in DOMAIN results |-> results[k].values[idx + 1]],
                 [k \in DOMAIN results |-> <<results[k].category, results[k].status>>],
                 correctOnly) \o <<NoneCell>>

\* replace_irrelevant: the row after the post-rule
replace_irrelevant(row, statusColIndex) ==
    IF row = <<>> THEN row
    ELSE LET count == row[statusColIndex + 1]
         IN  IF count = NoneCell \/ count.sum = NoneV \/ count.sum = Decimal(0, 1)
             THEN [i \in DOMAIN row |-> IF i - 1 >= 1 THEN NoneCell ELSE row[i]]
             ELSE row

\* per column, the eleven cells appended to the rows by the loop
stats_of_columns(results, correctOnly) ==
    [c \in DOMAIN results[1].columns |-> stats_of_column(results, c - 1, correctOnly)]

\* the tuple of the eleven rows returned
stats_of_rows(cells, statusColIndex) ==
    [i \in 1..11 |->
        replace_irrelevant([c \in DOMAIN cells |-> cells[c][i]], statusColIndex)]

StatsInit ==
    /\ pc = "stats"
    /\ MergeIdle
    /\ rows = <<>>
    /\ rowsDiff = <<>>
    /\ StatIdle
    /\ correct_only \in BOOLEAN
    /\ \E n \in 0..MaxRunResults :
       \E columns \in StatsColumnLists :
       \E kinds \in [1..n -> ResultKinds \cup {<<>>}] :
          runResults = [r \in 1..n |-> StatsResult(kinds[r], r, columns, correct_only)]
    /\ stats = <<>>
    /\ OtherIdle

\* get_stats_of_run_set(runResults, correct_only); runResults[0] raises
\* IndexError for the empty list
get_stats_of_run_set ==
    /\ pc = "stats"
    /\ IF runResults = <<>>
       THEN /\ pc' = "IndexError"
            /\ stats' = stats
       ELSE /\ pc' = "stats_done"
            /\ \E cells \in {stats_of_columns(runResults, correct_only)} :
                  stats' = stats_of_rows(cells, status_col_index(runResults[1].columns))
    /\ UNCHANGED <<mergeVars, rows, rowsDiff, statVars, runResults, correct_only, otherVars>>

StatsNext == get_stats_of_run_set

SpecStats == StatsInit /\ [][StatsNext]_vars

(***************************************************************************)
(* Claims on get_stats_of_run_set.                                         *)
(***************************************************************************)
\* the number of rows with the category whose value in column c (1-based)
\* has the classification
RowsWith(category, classification, c) ==
    Cardinality({k \in DOMAIN runResults :
                    /\ runResults[k].category = category
                    /\ get_result_classification(runResults[k].values[c]) = classification})

\* the cell is StatValue(sum=n)
IsCount(cell, n) == cell = StatValueOfSum(Decimal(n, 1))

\* the rows are (correct,true), (correct,false), (wrong,true)
Scenario ==
    /\ Len(runResults) = 3
    /\ \A k \in 1..3 :
          <<runResults[k].category, get_result_classification(runResults[k].status)>>
              = <<<<CATEGORY_CORRECT, RESULT_CLASS_TRUE>>,
                  <<CATEGORY_CORRECT, RESULT_CLASS_FALSE>>,
                  <<CATEGORY_WRONG, RESULT_CLASS_TRUE>>>>[k]

\* C10: in the statistics returned by get_stats_of_run_set, the six split
\* cells of the main-status column hold the numbers of rows by (category,
\* classification of the column's value), the cells correct,
\* correct-unconfirmed and incorrect hold the sums of their two splits, and
\* rows (correct,true), (correct,false), (wrong,true) give total 3,
\* correct 2, correct-true 1, correct-false 1, incorrect 1, wrong-true 1,
\* wrong-false 0.
C10_StatusCounts ==
    pc = "stats_done" =>
        \A c \in DOMAIN runResults[1].columns :
            runResults[1].columns[c].type = "main_status" =>
                /\ IsCount(stats[3][c], RowsWith(CATEGORY_CORRECT, RESULT_CLASS_TRUE, c))
                /\ IsCount(stats[4][c], RowsWith(CATEGORY_CORRECT, RESULT_CLASS_FALSE, c))
                /\ IsCount(stats[6][c],
                           RowsWith(CATEGORY_CORRECT_UNCONFIRMED, RESULT_CLASS_TRUE, c))
                /\ IsCount(stats[7][c],
                           RowsWith(CATEGORY_CORRECT_UNCONFIRMED, RESULT_CLASS_FALSE, c))
                /\ IsCount(stats[9][c], RowsWith(CATEGORY_WRONG, RESULT_CLASS_TRUE, c))
                /\ IsCount(stats[10][c], RowsWith(CATEGORY_WRONG, RESULT_CLASS_FALSE, c))
                /\ stats[2][c].sum = Add(stats[3][c].sum, stats[4][c].sum)
                /\ stats[5][c].sum = Add(stats[6][c].sum, stats[7][c].sum)
                /\ stats[8][c].sum = Add(stats[9][c].sum, stats[10][c].sum)
                /\ Scenario =>
                      /\ IsCount(stats[1][c], 3)
                      /\ IsCount(stats[2][c], 2)
                      /\ IsCount(stats[3][c], 1)
                      /\ IsCount(stats[4][c], 1)
                      /\ IsCount(stats[8][c], 1)
                      /\ IsCount(stats[9][c], 1)
                      /\ IsCount(stats[10][c], 0)

(***************************************************************************)
(* The invariant of RunResult.                                             *)
(***************************************************************************)
\* every RunResult of the run sets and of the rows
AllRunResults ==
    UNION {Range(runSetResults[i].results) : i \in DOMAIN runSetResults}
        \cup UNION {Range(rows[r]) : r \in DOMAIN rows}

\* C11: every RunResult that exists at any point of the pipeline, loaded from
\* a run tag or synthesized by merge_task_lists for a missing task, has as
\* many values as columns (the assertion of RunResult.__init__ holds).
C11_ValuesMatchColumns ==
    \A r \in AllRunResults : Len(r.values) = Len(r.columns)

C11_Witness ==
    /\ pc = "rows"
    /\ \E r1, r2 \in AllRunResults :
          /\ r1.category = CATEGORY_MISSING
          /\ Len(r1.columns) >= 2
          /\ r2.category = CATEGORY_CORRECT
          /\ Len(r2.columns) >= 1

(***************************************************************************)
(* options.dump_counts: get_regression_count and get_counts                *)
(***************************************************************************)
CATEGORY_UNKNOWN == "unknown"

\* the status and category of the results of the dumped table; the last
\* one is the synthetic result of a missing task
DumpKinds ==
    {<<"true", CATEGORY_CORRECT>>,
     <<"false(unreach-call)", CATEGORY_WRONG>>,
     <<"TIMEOUT", CATEGORY_ERROR>>,
     <<"TIMEOUT (true)", CATEGORY_ERROR>>,
     <<"OUT OF MEMORY", CATEGORY_ERROR>>,
     <<"OUT OF MEMORY (false)", CATEGORY_ERROR>>,
     <<"unknown", CATEGORY_UNKNOWN>>,
     <<None, CATEGORY_MISSING>>}

DumpResult(kind, task) ==
    IF kind[1] = None THEN dummy_result(task, [columns |-> <<>>])
    ELSE RunResult(task, kind[1], kind[2], 0, "log", <<>>, <<>>, {}, task)

\* str.startswith on the statuses of the model
startswith(status, prefix) ==
    \/ status = prefix
    \/ <<status, prefix>> \in {<<"TIMEOUT (true)", "TIMEOUT">>,
                               <<"OUT OF MEMORY (false)", "OUT OF MEMORY">>}

\* status_is: a null or empty status is no status
status_is(run_result, status) ==
    /\ run_result.status # None
    /\ run_result.status # ""
    /\ startswith(run_result.status, status)

any_status_is(run_results, status) ==
    \E k \in DOMAIN run_results : status_is(run_results[k], status)

\* the row's results without the last two: row.results[:-2]
older_results(results) ==
    IF Len(results) >= 2 THEN SubSeq(results, 1, Len(results) - 2) ELSE <<>>

\* the loop body that exempts flapping timeouts whatever the option says
is_regression_always_ignoring(results, ignoreFlapping) ==
    LET new == results[Len(results)]
        old == results[Len(results) - 1]
    IN  /\ new.category # CATEGORY_CORRECT
        /\ new.status # old.status
        /\ ~(status_is(new, "TIMEOUT") /\ status_is(old, "TIMEOUT"))
        /\ ~(status_is(new, "OUT OF MEMORY") /\ status_is(old, "OUT OF MEMORY"))
        /\ ~(/\ status_is(new, "TIMEOUT")
             /\ any_status_is(older_results(results), "TIMEOUT"))

\* the body of the loop for a row with at least two results: TRUE when it
\* reaches "regressions += 1"
is_regression(results, ignoreFlapping) ==
    LET new == results[Len(results)]
        old == results[Len(results) - 1]
    IN  /\ new.category # CATEGORY_CORRECT
        /\ new.status # old.status
        /\ ~(status_is(new, "TIMEOUT") /\ status_is(old, "TIMEOUT"))
        /\ ~(status_is(new, "OUT OF MEMORY") /\ status_is(old, "OUT OF MEMORY"))
        /\ ~(/\ ignoreFlapping
             /\ status_is(new, "TIMEOUT")
             /\ any_status_is(older_results(results), "TIMEOUT"))

\* get_regression_count from row k on, with the regressions counted so far
RECURSIVE regression_loop(_, _, _, _)
regression_loop(rws, k, ignoreFlapping, count) ==
    IF k > Len(rws) THEN count
    ELSE IF Len(rws[k]) < 2 THEN 0
    ELSE regression_loop(rws, k + 1, ignoreFlapping,
                         IF is_regression(rws[k], ignoreFlapping)
                         THEN count + 1 ELSE count)

\* rows_to_columns: zip(*[row.results for row in rows])
rows_to_columns(rws) ==
    IF rws = <<>> THEN <<>>
    ELSE [i \in 1..Min({Len(rws[r]) : r \in DOMAIN rws}) |->
             [r \in DOMAIN rws |-> rws[r][i]]]

\* collections.Counter over the categories: counts[category]
category_count(run_results, category) ==
    Cardinality({k \in DOMAIN run_results : run_results[k].category = category})

\* the triple of one run set
counts_of(run_results) ==
    <<category_count(run_results, CATEGORY_CORRECT),
      category_count(run_results, CATEGORY_WRONG),
      category_count(run_results, CATEGORY_UNKNOWN)
          + category_count(run_results, CATEGORY_ERROR)
          + category_count(run_results, None)>>

DumpInit ==
    /\ pc = "dump_counts"
    /\ MergeIdle
    /\ rowsDiff = <<>>
    /\ StatIdle
    /\ StatsIdle
    /\ ignoreFlappingTimeouts \in BOOLEAN
    /\ \E m \in 0..MaxRows : \E n \in 0..MaxResults :
          /\ m * n <= MaxResults
          /\ (m = 0 => n = 0)
          /\ \E kinds \in [1..m -> [1..n -> DumpKinds]] :
                rows = [r \in 1..m |-> [i \in 1..n |-> DumpResult(kinds[r][i], r)]]
    /\ regressions = 0
    /\ countsList = <<>>
    /\ LoadIdle
    /\ CollectIdle
    /\ ColumnIdle
    /\ ToolIdle

\* main(): get_regression_count(rows, options.ignoreFlappingTimeouts)
get_regression_count ==
    /\ pc = "dump_counts"
    /\ regressions' = regression_loop(rows, 1, ignoreFlappingTimeouts, 0)
    /\ pc' = "regressions"
    /\ UNCHANGED <<mergeVars, rows, rowsDiff, statVars, statsVars>>
    /\ UNCHANGED <<ignoreFlappingTimeouts, countsList, loadVars, collectVars, columnVars, toolVars>>

\* main(): get_counts(rows)
get_counts ==
    /\ pc = "regressions"
    /\ countsList' = [i \in DOMAIN rows_to_columns(rows) |->
                         counts_of(rows_to_columns(rows)[i])]
    /\ pc' = "counts"
    /\ UNCHANGED <<mergeVars, rows, rowsDiff, statVars, statsVars>>
    /\ UNCHANGED <<ignoreFlappingTimeouts, regressions, loadVars, collectVars, columnVars, toolVars>>

DumpNext ==
    \/ get_regression_count
    \/ get_counts

SpecDump == DumpInit /\ [][DumpNext]_vars

(***************************************************************************)
(* Claims on the dumped counts.                                            *)
(***************************************************************************)
TimeoutPrefixed(status) == status \in {"TIMEOUT", "TIMEOUT (true)"}

OutOfMemoryPrefixed(status) == status \in {"OUT OF MEMORY", "OUT OF MEMORY (false)"}

\* the row contributes a regression, in the words of the claim
Regressed(row) ==
    LET n == Len(row)
    IN  /\ row[n].category # "correct"
        /\ row[n].status # row[n - 1].status
        /\ ~(TimeoutPrefixed(row[n].status) /\ TimeoutPrefixed(row[n - 1].status))
        /\ ~(OutOfMemoryPrefixed(row[n].status) /\ OutOfMemoryPrefixed(row[n - 1].status))
        /\ ~(/\ ignoreFlappingTimeouts
             /\ TimeoutPrefixed(row[n].status)
             /\ \E k \in 1..(n - 2) : TimeoutPrefixed(row[k].status))

\* the statuses of the row, oldest first
History(row) == [k \in DOMAIN row |-> row[k].status]

\* C12: the regression count is 0 when the rows have fewer than two results
\* and otherwise the number of rows whose newest result is not correct,
\* differs in status from the previous one, is not a timeout after a timeout
\* or an out-of-memory after an out-of-memory, and is not a flapping timeout
\* that is ignored; the histories [TIMEOUT, TIMEOUT, FALSE] and
\* [TRUE, TIMEOUT, FALSE] count 1 each with flapping-timeout ignoring enabled.
C12_RegressionCount ==
    pc \in {"regressions", "counts"} =>
        /\ (\A r \in DOMAIN rows : Len(rows[r]) < 2) => regressions = 0
        /\ (rows # <<>> /\ \A r \in DOMAIN rows : Len(rows[r]) >= 2) =>
              regressions = Cardinality({r \in DOMAIN rows : Regressed(rows[r])})
        /\ (/\ Len(rows) = 1
            /\ ignoreFlappingTimeouts
            /\ History(rows[1]) \in {<<"TIMEOUT", "TIMEOUT", "false(unreach-call)">>,
                                     <<"true", "TIMEOUT", "false(unreach-call)">>})
              => regressions = 1

C12_Witness ==
    /\ pc = "regressions"
    /\ Len(rows) = 1
    /\ ignoreFlappingTimeouts
    /\ History(rows[1]) = <<"TIMEOUT", "TIMEOUT", "false(unreach-call)">>
    /\ regressions = 1

\* the number of results of run set i with one of the categories
NumberWith(i, categories) ==
    Cardinality({r \in DOMAIN rows : rows[r][i].category \in categories})

\* C13: get_counts returns one triple per run set, in run-set order: the
\* number of results with category correct, the number with category wrong,
\* and the number with category unknown, error or missing (a synthetic
\* result of a missing task counts in the third number).
C13_CountsTriple ==
    pc = "counts" =>
        /\ rows # <<>> => Len(countsList) = Len(rows[1])
        /\ \A i \in DOMAIN countsList :
              countsList[i] = <<NumberWith(i, {"correct"}),
                                NumberWith(i, {"wrong"}),
                                NumberWith(i, {"unknown", "error", "missing"})>>

(***************************************************************************)
(* Loading of the result files and the two fan-outs of the worker pool.    *)
(***************************************************************************)
\* what a result file holds: a result element, a result element with an
\* error attribute, a root element with another tag, or no XML at all
FileKinds == {"result", "error", "table", "ParseError"}

\* a value held by a future or returned by a worker
Outcome(kind, file) == [kind |-> kind, file |-> file]

pending == Outcome("pending", 0)

\* the skipped marker None of the loader
NoneRunSet == Outcome("None", 0)

\* exit(1) in the function that the worker runs
SystemExit == Outcome("exit", 1)

\* parse_results_file: the element returned, None or exit(1)
parse_results_file(kind, ignoreErrors) ==
    IF kind = "ParseError" THEN "exit"
    ELSE IF kind \notin {"result", "error"} THEN "exit"
    ELSE IF ignoreErrors /\ kind = "error" THEN None
    ELSE "resultElem"

\* load_result for the file at position i: the RunSetResult of the file
load_result(files, i, ignoreErrors) ==
    LET xml == parse_results_file(files[i], ignoreErrors)
    IN  IF xml = "exit" THEN SystemExit
        ELSE IF xml = None THEN NoneRunSet
        ELSE Outcome("RunSetResult", i)

\* the future whose result is collected next: in completion order
next_completed(collected, done) == done[Len(collected) + 1]

\* the future whose result is collected next: [future.result() for future
\* in results] and the iterator of parallel.map go by position
next_future(collected, done) == Len(collected) + 1

\* main(): runSetResults = [r for r in runSetResults if r is not None]
RECURSIVE not_None(_)
not_None(list) ==
    IF list = <<>> THEN <<>>
    ELSE (IF Head(list) = NoneRunSet THEN <<>> ELSE <<Head(list)>>) \o not_None(Tail(list))

LoadInit ==
    /\ pc = "load_results"
    /\ MergeIdle
    /\ rows = <<>>
    /\ rowsDiff = <<>>
    /\ StatIdle
    /\ StatsIdle
    /\ DumpIdle
    /\ \E n \in 1..MaxFiles : result_files \in [1..n -> FileKinds]
    /\ ignore_errors \in BOOLEAN
    /\ futures = <<>>
    /\ finished = <<>>
    /\ gathered = <<>>
    /\ loaded = <<>>
    /\ statsList = <<>>
    /\ CollectIdle
    /\ ColumnIdle
    /\ ToolIdle

\* parallel.submit(load_result, resultsFile, ...) for the next result file
submit_load_result ==
    /\ pc = "load_results"
    /\ Len(futures) < Len(result_files)
    /\ futures' = Append(futures, pending)
    /\ UNCHANGED <<pc, mergeVars, rows, rowsDiff, statVars, statsVars, dumpVars, collectVars, columnVars, toolVars>>
    /\ UNCHANGED <<result_files, ignore_errors, finished, gathered, loaded, statsList>>

\* a worker finishes load_result for a submitted file
worker_load_result ==
    /\ pc = "load_results"
    /\ \E i \in DOMAIN futures :
          /\ futures[i] = pending
          /\ futures' = [futures EXCEPT ![i] = load_result(result_files, i, ignore_errors)]
          /\ finished' = Append(finished, i)
    /\ UNCHANGED <<pc, mergeVars, rows, rowsDiff, statVars, statsVars, dumpVars, collectVars, columnVars, toolVars>>
    /\ UNCHANGED <<result_files, ignore_errors, gathered, loaded, statsList>>

\* future.result() for the next future, once all files are submitted
collect_load_result ==
    /\ pc = "load_results"
    /\ Len(futures) = Len(result_files)
    /\ Len(gathered) < Len(futures)
    /\ Len(finished) > Len(gathered)
    /\ LET i == next_future(gathered, finished)
       IN  /\ futures[i] # pending
           /\ IF futures[i] = SystemExit
              THEN /\ pc' = "exit(1)"
                   /\ UNCHANGED gathered
              ELSE /\ pc' = pc
                   /\ gathered' = Append(gathered, futures[i])
    /\ UNCHANGED <<mergeVars, rows, rowsDiff, statVars, statsVars, dumpVars, collectVars, columnVars, toolVars>>
    /\ UNCHANGED <<result_files, ignore_errors, futures, finished, loaded, statsList>>

\* main(): the run sets that are not None; "No benchmark results found."
load_results_return ==
    /\ pc = "load_results"
    /\ Len(gathered) = Len(result_files)
    /\ loaded' = not_None(gathered)
    /\ pc' = IF not_None(gathered) = <<>> THEN "No benchmark results found" ELSE "get_stats"
    /\ futures' = IF not_None(gathered) = <<>> THEN futures
                  ELSE [i \in DOMAIN not_None(gathered) |-> pending]
    /\ finished' = <<>>
    /\ UNCHANGED <<mergeVars, rows, rowsDiff, statVars, statsVars, dumpVars, collectVars, columnVars, toolVars>>
    /\ UNCHANGED <<result_files, ignore_errors, gathered, statsList>>

\* a worker finishes get_stats_of_run_set for a run set
worker_get_stats_of_run_set ==
    /\ pc = "get_stats"
    /\ \E i \in DOMAIN futures :
          /\ futures[i] = pending
          /\ futures' = [futures EXCEPT ![i] = Outcome("stats", loaded[i].file)]
          /\ finished' = Append(finished, i)
    /\ UNCHANGED <<pc, mergeVars, rows, rowsDiff, statVars, statsVars, dumpVars, collectVars, columnVars, toolVars>>
    /\ UNCHANGED <<result_files, ignore_errors, gathered, loaded, statsList>>

\* get_stats: list(parallel.map(get_stats_of_run_set, ...)) takes the next
\* result
collect_stats ==
    /\ pc = "get_stats"
    /\ Len(statsList) < Len(futures)
    /\ Len(finished) > Len(statsList)
    /\ LET i == next_future(statsList, finished)
       IN  /\ futures[i] # pending
           /\ statsList' = Append(statsList, futures[i])
    /\ pc' = IF Len(statsList') = Len(futures) THEN "stats_collected" ELSE pc
    /\ UNCHANGED <<mergeVars, rows, rowsDiff, statVars, statsVars, dumpVars, collectVars, columnVars, toolVars>>
    /\ UNCHANGED <<result_files, ignore_errors, futures, finished, gathered, loaded>>

LoadNext ==
    \/ submit_load_result
    \/ worker_load_result
    \/ collect_load_result
    \/ load_results_return
    \/ worker_get_stats_of_run_set
    \/ collect_stats

SpecLoad == LoadInit /\ [][LoadNext]_vars

(***************************************************************************)
(* Claims on the loading.                                                  *)
(***************************************************************************)
\* the file cannot be parsed as XML or its root tag is not result or test
Corrupt(i) == result_files[i] \in {"table", "ParseError"}

\* C14: the run ends with exit code 1 because of a result file only when a
\* file is corrupt (not XML, or a root tag other than result/test) and
\* ignore-errors is not set; when ignore-errors is set, load_results returns
\* None for every corrupt file and the result of every other file.
C14_CorruptFileHandling ==
    /\ pc = "exit(1)" =>
          ~ignore_errors /\ \E i \in DOMAIN result_files : Corrupt(i)
    /\ (pc \in {"get_stats", "stats_collected", "No benchmark results found"}) =>
          /\ Len(gathered) = Len(result_files)
          /\ ~ignore_errors => \A i \in DOMAIN result_files : ~Corrupt(i)
          /\ \A i \in DOMAIN result_files :
                IF Corrupt(i) \/ (ignore_errors /\ result_files[i] = "error")
                THEN gathered[i] = NoneRunSet
                ELSE gathered[i] = Outcome("RunSetResult", i)

\* C16: whatever the order in which the workers finish, the i-th result
\* collected by load_results is that of the i-th submitted result file (or
\* the skipped marker), and the i-th statistics collected by get_stats are
\* those of the i-th run set.
C16_PositionalCollection ==
    /\ \A i \in DOMAIN gathered :
          gathered[i] = NoneRunSet \/ gathered[i] = Outcome("RunSetResult", i)
    /\ \A i \in DOMAIN statsList :
          statsList[i] = Outcome("stats", loaded[i].file)
    /\ \A i, j \in DOMAIN loaded : i < j => loaded[i].file < loaded[j].file

C16_Witness ==
    /\ pc = "stats_collected"
    /\ Len(result_files) = 3
    /\ Len(loaded) = 2
    /\ finished = <<2, 1>>
    /\ statsList = <<Outcome("stats", 1), Outcome("stats", 3)>>

(***************************************************************************)
(* RunSetResult.collect_data and RunResult.create_from_xml, column by      *)
(* column.                                                                 *)
(***************************************************************************)
\* a column of the table definition: title, extraction pattern, href
ColumnDef(title, pattern, href) == [title |-> title, pattern |-> pattern, href |-> href]

\* the column lists of a run set
CollectColumnLists ==
    {<<ColumnDef("status", None, None)>>,
     <<ColumnDef("memory", "mem", None)>>,
     <<ColumnDef("memory", "mem", None), ColumnDef("steps", "steps", None)>>,
     <<ColumnDef("cputime", None, None), ColumnDef("memory", "mem", None),
       ColumnDef("Score", None, None)>>,
     <<ColumnDef("witness", None, "w.graphml"), ColumnDef("report", "rep", "r.html"),
       ColumnDef("memory", "mem", None)>>,
     <<ColumnDef("Status", "st", None), ColumnDef("cputime", None, None)>>}

\* a run tag: status, category and where its log is: no logfile attribute
\* (""), a file of its own ("file"), an entry of the archive with URL 1
\* ("zip"), no entry of that archive ("KeyError"), or an archive with URL 2
\* that cannot be opened ("IOError")
RunTag(status, category, logfile) ==
    [status |-> status, category |-> category, logfile |-> logfile]

RunTags ==
    {RunTag("true", CATEGORY_CORRECT, "file"),
     RunTag("true", CATEGORY_CORRECT, "zip"),
     RunTag("true", CATEGORY_CORRECT, "KeyError"),
     RunTag("true", CATEGORY_CORRECT, "IOError"),
     RunTag("true", CATEGORY_CORRECT, ""),
     RunTag("true", CATEGORY_WRONG, "zip")}

\* the values of the attribute toolmodule: none, a module that cannot be
\* imported, a module without class Tool, a tool module
ToolModules == {None, "missing", "benchexec.tools.template", "benchexec.tools.z3"}

\* log_zip_url of a log file
log_zip_url(log_file) == IF log_file = "IOError" THEN 2 ELSE 1

\* read_logfile_lines(log_file) for run tag r: the lines, the cache and
\* the files opened
read_logfile_lines(log_file, r, cache, opened) ==
    IF log_file = ""
    THEN [lines |-> "[]", cache |-> cache, io |-> opened]
    ELSE IF log_file = "file"
    THEN [lines |-> "lines", cache |-> cache, io |-> Append(opened, <<"open", "log", r>>)]
    ELSE LET url == log_zip_url(log_file)
             tried == Append(opened, <<"IOError", "log", r>>)
         IN  IF url \in cache
             THEN [lines |-> IF log_file = "zip" THEN "lines" ELSE "[]",
                   cache |-> cache, io |-> tried]
             ELSE IF log_file = "IOError"
             THEN [lines |-> "[]", cache |-> cache,
                   io |-> Append(tried, <<"IOError", "zip", url>>)]
             ELSE [lines |-> IF log_file = "zip" THEN "lines" ELSE "[]",
                   cache |-> cache \cup {url},
                   io |-> Append(tried, <<"open", "zip", url>>)]

\* load_tool_module: the Tool object or None
load_tool_module(tool_module) ==
    IF tool_module = "benchexec.tools.z3" THEN "Tool" ELSE None

\* load_tool: the tool, loaded_tools and the calls of load_tool_module
load_tool(tool_module, tools, attempts) ==
    IF tool_module \in DOMAIN tools
    THEN [tool |-> tools[tool_module], loaded_tools |-> tools, load_attempts |-> attempts]
    ELSE [tool |-> load_tool_module(tool_module),
          loaded_tools |-> [t \in DOMAIN tools \cup {tool_module} |->
                               IF t = tool_module THEN load_tool_module(tool_module)
                               ELSE tools[t]],
          load_attempts |-> Append(attempts, tool_module)]

\* tool.get_value_from_output(lines, identifier)
get_value_from_output(lines) == IF lines = "lines" THEN "extracted" ELSE None

\* the source by "no pattern and no href"
value_source_and(column, category, correctOnly) ==
    IF lower(column.title) = "score" THEN "score"
    ELSE IF lower(column.title) = "status" THEN "status"
    ELSE IF ~correctOnly \/ category = CATEGORY_CORRECT
    THEN (IF column.pattern = None /\ column.href = None THEN "xml" ELSE "log")
    ELSE None

\* the source of the value of a column: "score", "status", "xml", "log" or
\* None when the column is skipped
value_source(column, category, correctOnly) ==
    IF lower(column.title) = "score" THEN "score"
    ELSE IF lower(column.title) = "status" THEN "status"
    ELSE IF ~correctOnly \/ category = CATEGORY_CORRECT
    THEN (IF column.pattern = None \/ column.href # None THEN "xml" ELSE "log")
    ELSE None

\* "if logfileLines is None" that holds for every column
logfileLines_is_None_always(lines) == TRUE

\* "if logfileLines is None": the log is yet to be read
logfileLines_is_None(lines) == lines = None

\* a finally block that closes nothing
close_none(cache, opened) == opened

\* "for file in log_zip_cache.values(): file.close()"
RECURSIVE close_all(_, _)
close_all(cache, opened) ==
    IF cache = {} THEN opened
    ELSE LET url == Min(cache)
         IN  close_all(cache \ {url}, Append(opened, <<"close", "zip", url>>))

CollectInit ==
    /\ pc = "collect_data"
    /\ MergeIdle
    /\ rows = <<>>
    /\ rowsDiff = <<>>
    /\ StatIdle
    /\ runResults = <<>>
    /\ stats = <<>>
    /\ DumpIdle
    /\ LoadIdle
    /\ ColumnIdle
    /\ ToolIdle
    /\ correct_only \in BOOLEAN
    /\ toolmodule \in ToolModules
    /\ \E n \in 0..MaxRunTags : xml_results \in [1..n -> RunTags]
    /\ listOfColumns \in CollectColumnLists
    /\ self_results = <<>>
    /\ run_no = 1
    /\ col_no = 1
    /\ run_values = <<>>
    /\ run_sources = <<>>
    /\ logfileLines = None
    /\ log_zip_cache = {}
    /\ \/ /\ loaded_tools = <<>>
          /\ load_attempts = <<>>
       \/ /\ loaded_tools = [t \in {toolmodule} |-> load_tool_module(toolmodule)]
          /\ load_attempts = <<toolmodule>>
    /\ io = <<>>

\* one iteration of "for column in listOfColumns" that does not use the log
create_from_xml_column ==
    /\ pc = "collect_data"
    /\ run_no <= Len(xml_results)
    /\ col_no <= Len(listOfColumns)
    /\ LET tag == xml_results[run_no]
           column == listOfColumns[col_no]
           source == value_source(column, tag.category, correct_only)
       IN  /\ source # "log"
           /\ run_values' = Append(run_values,
                                   IF source = "status" THEN tag.status ELSE source)
           /\ run_sources' = Append(run_sources, source)
    /\ col_no' = col_no + 1
    /\ UNCHANGED <<pc, mergeVars, rows, rowsDiff, statVars, statsVars, dumpVars, loadVars, columnVars, toolVars>>
    /\ UNCHANGED <<toolmodule, xml_results, listOfColumns, self_results, run_no,
                   logfileLines, log_zip_cache, loaded_tools, load_attempts, io>>

\* one iteration of "for column in listOfColumns" for a value from the log:
\* the log is read unless it is cached, and the tool extracts the value;
\* without a tool, None.get_value_from_output raises AttributeError
create_from_xml_logfile ==
    /\ pc = "collect_data"
    /\ run_no <= Len(xml_results)
    /\ col_no <= Len(listOfColumns)
    /\ LET tag == xml_results[run_no]
           column == listOfColumns[col_no]
           read == IF logfileLines_is_None(logfileLines)
                   THEN read_logfile_lines(tag.logfile, run_no, log_zip_cache, io)
                   ELSE [lines |-> logfileLines, cache |-> log_zip_cache, io |-> io]
           tool == load_tool(toolmodule, loaded_tools, load_attempts)
       IN  /\ value_source(column, tag.category, correct_only) = "log"
           /\ logfileLines' = read.lines
           /\ log_zip_cache' = read.cache
           /\ io' = read.io
           /\ loaded_tools' = tool.loaded_tools
           /\ load_attempts' = tool.load_attempts
           /\ IF tool.tool = None
              THEN /\ pc' = "raise AttributeError"
                   /\ UNCHANGED <<run_values, run_sources, col_no>>
              ELSE /\ pc' = pc
                   /\ run_values' = Append(run_values, get_value_from_output(read.lines))
                   /\ run_sources' = Append(run_sources, "log")
                   /\ col_no' = col_no + 1
    /\ UNCHANGED <<mergeVars, rows, rowsDiff, statVars, statsVars, dumpVars, loadVars, columnVars, toolVars>>
    /\ UNCHANGED <<toolmodule, xml_results, listOfColumns, self_results, run_no>>

\* create_from_xml returns the RunResult, which collect_data appends
create_from_xml_return ==
    /\ pc = "collect_data"
    /\ run_no <= Len(xml_results)
    /\ col_no > Len(listOfColumns)
    /\ self_results' =
          Append(self_results,
                 RunResult(run_no, xml_results[run_no].status, xml_results[run_no].category,
                           0, xml_results[run_no].logfile, listOfColumns, run_values, {},
                           run_no))
    /\ run_no' = run_no + 1
    /\ col_no' = 1
    /\ run_values' = <<>>
    /\ run_sources' = <<>>
    /\ logfileLines' = None
    /\ UNCHANGED <<pc, mergeVars, rows, rowsDiff, statVars, statsVars, dumpVars, loadVars, columnVars, toolVars>>
    /\ UNCHANGED <<toolmodule, xml_results, listOfColumns, log_zip_cache, loaded_tools,
                   load_attempts, io>>

\* the finally block of collect_data: after the loop, or with the exception
collect_data_finally ==
    /\ \/ /\ pc = "collect_data"
          /\ run_no > Len(xml_results)
          /\ pc' = "collected"
       \/ /\ pc = "raise AttributeError"
          /\ pc' = "AttributeError"
    /\ io' = close_all(log_zip_cache, io)
    /\ UNCHANGED <<mergeVars, rows, rowsDiff, statVars, statsVars, dumpVars, loadVars, columnVars, toolVars>>
    /\ UNCHANGED <<toolmodule, xml_results, listOfColumns, self_results, run_no, col_no,
                   run_values, run_sources, logfileLines, log_zip_cache, loaded_tools,
                   load_attempts>>

CollectNext ==
    \/ create_from_xml_column
    \/ create_from_xml_logfile
    \/ create_from_xml_return
    \/ collect_data_finally

SpecCollect == CollectInit /\ [][CollectNext]_vars

(***************************************************************************)
(* Claims on collect_data.                                                 *)
(***************************************************************************)
\* the run set has no tool: no attribute toolmodule, a module that cannot be
\* imported, or a module without class Tool
ToolUnavailable == toolmodule # "benchexec.tools.z3"

\* the column takes its value from the log for the run tag
LogDerived(column, tag) ==
    /\ column.title \notin {"score", "Score", "status", "Status"}
    /\ column.pattern # None
    /\ column.href = None
    /\ (correct_only => tag.category = "correct")

\* C15: loading the tool is attempted at most once per module name in a
\* process; when the tool is unavailable, collect_data does not raise and
\* the value of every log-derived column of every run is null.
C15_MissingToolDegrades ==
    /\ \A i, j \in DOMAIN load_attempts : load_attempts[i] = load_attempts[j] => i = j
    /\ ToolUnavailable =>
          /\ pc \notin {"raise AttributeError", "AttributeError"}
          /\ pc = "collected" =>
                /\ Len(self_results) = Len(xml_results)
                /\ \A r \in DOMAIN self_results : \A c \in DOMAIN listOfColumns :
                      LogDerived(listOfColumns[c], xml_results[r]) =>
                          self_results[r].values[c] = None

\* the positions of io with the event
Events(kind, what, n) == {k \in DOMAIN io : io[k] = <<kind, what, n>>}

\* C17: within one collect_data call an archive URL is opened successfully
\* at most once (later runs use the cached handle), the cache holds exactly
\* the archives opened, and when collect_data is left, normally or with an
\* exception, every archive of the cache has been closed.
C17_CacheLifetime ==
    /\ \A url \in {1, 2} :
          /\ Cardinality(Events("open", "zip", url)) <= 1
          /\ url \in log_zip_cache <=> Events("open", "zip", url) # {}
    /\ pc \in {"collected", "AttributeError"} =>
          \A url \in log_zip_cache :
              \E k \in Events("close", "zip", url) :
                  \A j \in Events("open", "zip", url) : j < k

C17_Witness ==
    /\ pc = "collected"
    /\ Len(self_results) = 2
    /\ \A r \in 1..2 : xml_results[r].logfile = "zip" /\ self_results[r].values[1] = "extracted"
    /\ log_zip_cache = {1}
    /\ Events("close", "zip", 1) # {}

\* the run tag has a column whose value comes from the log
ReadsLog(r) ==
    \E c \in DOMAIN listOfColumns : LogDerived(listOfColumns[c], xml_results[r])

\* C18: for every run the log is read at most once, however many of its
\* columns come from the log and also when the log is missing; a run
\* without such a column never reads its log; and an archive is only
\* touched right after the run's own log file could not be opened.
C18_LogReadOnce ==
    /\ \A r \in DOMAIN xml_results :
          /\ Cardinality(Events("open", "log", r) \cup Events("IOError", "log", r)) <= 1
          /\ ~ReadsLog(r) => Events("open", "log", r) \cup Events("IOError", "log", r) = {}
    /\ \A k \in DOMAIN io :
          (io[k][2] = "zip" /\ io[k][1] \in {"open", "IOError"}) =>
              /\ k > 1
              /\ io[k - 1][1] = "IOError"
              /\ io[k - 1][2] = "log"

C18_Witness ==
    /\ pc = "collected"
    /\ Len(listOfColumns) = 2
    /\ Len(self_results) = 2
    /\ xml_results[1].logfile = "IOError"
    /\ xml_results[2].logfile = "KeyError"
    /\ \A r \in 1..2 : ReadsLog(r) /\ self_results[r].values = <<None, None>>
    /\ Cardinality(Events("IOError", "log", 1)) = 1
    /\ Cardinality(Events("IOError", "zip", 2)) = 1

ColumnTitles == {"status", "cputime", "host", "alloc", "Zeta"}

\* the values of c.get('hidden')
HiddenValues == {"true", "None"}

ColumnTag(title, hidden) == [title |-> title, hidden |-> hidden]

ColumnTags == {ColumnTag(t, h) : t \in ColumnTitles, h \in HiddenValues}

\* ord() of the first character of a title; the titles of ColumnTitles
\* differ in their first character, which decides Python's str comparison
ord(title) ==
    CASE title = "Zeta" -> 90
      [] title = "alloc" -> 97
      [] title = "cputime" -> 99
      [] title = "host" -> 104
      [] title = "status" -> 115

\* str.__lt__ on titles
str_lt(a, b) == ord(a) < ord(b)

\* sorted() of a set of titles
RECURSIVE sorted_titles(_)
sorted_titles(names) ==
    IF names = {} THEN <<>>
    ELSE LET first == CHOOSE a \in names : \A b \in names \ {a} : str_lt(a, b)
         IN  <<first>> \o sorted_titles(names \ {first})

\* the main columns among the names, sorted like the other titles
main_columns_sorted(column_names) ==
    sorted_titles(column_names \cap Range(MAIN_COLUMNS))

\* [column for column in MAIN_COLUMNS if column in column_names]
main_columns_in(column_names) ==
    SelectSeq(MAIN_COLUMNS, LAMBDA column : column \in column_names)

\* the titles of the column tags that are shown
shown_titles(tags, allColumns) ==
    {tags[k].title : k \in {j \in DOMAIN tags : allColumns \/ tags[j].hidden # "true"}}

_extract_existing_columns_from_result(runTagsExist, tags, allColumns) ==
    IF ~runTagsExist THEN <<>>
    ELSE LET column_names == shown_titles(tags, allColumns)
             titles == main_columns_in(column_names)
                           \o sorted_titles(column_names \ Range(MAIN_COLUMNS))
         IN  [k \in DOMAIN titles |-> Column(titles[k], "None")]

ColumnInit ==
    /\ pc = "extract_columns"
    /\ MergeIdle
    /\ rows = <<>>
    /\ rowsDiff = <<>>
    /\ StatIdle
    /\ StatsIdle
    /\ DumpIdle
    /\ LoadIdle
    /\ CollectIdle
    /\ ToolIdle
    /\ run_tags_exist \in BOOLEAN
    /\ all_columns \in BOOLEAN
    /\ \E n \in 0..MaxColumnTags :
          /\ (~run_tags_exist => n = 0)
          /\ column_tags \in [1..n -> ColumnTags]
    /\ existing_columns = <<>>

\* RunSetResult.create_from_xml: extract_columns_from_table_definition_file
\* is not used, the columns are taken from the result file
extract_existing_columns ==
    /\ pc = "extract_columns"
    /\ existing_columns' =
           _extract_existing_columns_from_result(run_tags_exist, column_tags, all_columns)
    /\ pc' = "columns_extracted"
    /\ UNCHANGED <<mergeVars, rows, rowsDiff, statVars, statsVars>>
    /\ UNCHANGED <<dumpVars, loadVars, collectVars, toolVars>>
    /\ UNCHANGED <<run_tags_exist, column_tags, all_columns>>

ColumnNext ==
    \/ extract_existing_columns

SpecColumns == ColumnInit /\ [][ColumnNext]_vars

(***************************************************************************)
(* Claims on the discovered columns.                                       *)
(***************************************************************************)
\* the titles that occur in some run with hidden != true, or in any run
\* when all_columns is set
OccurringTitles ==
    {t \in ColumnTitles :
        \E k \in DOMAIN column_tags :
            /\ column_tags[k].title = t
            /\ all_columns \/ column_tags[k].hidden # "true"}

IsMain(title) == \E m \in DOMAIN MAIN_COLUMNS : MAIN_COLUMNS[m] = title

MainPosition(title) == CHOOSE m \in DOMAIN MAIN_COLUMNS : MAIN_COLUMNS[m] = title

Characters == {"a", "b", "=", " ", "\n"}

\* str.isspace() on one character
whitespace == {" ", "\n"}

\* the identifiers of the columns
Identifiers == {<<"a">>, <<"a", "b">>}

\* None where a text is expected
NoText == <<"None">>

\* the texts of at most n characters
RECURSIVE Texts(_)
Texts(n) ==
    IF n = 0 THEN {<<>>}
    ELSE LET shorter == Texts(n - 1)
         IN  shorter \cup {Append(t, c) : t \in {s \in shorter : Len(s) = n - 1},
                                          c \in Characters}

\* logfile.readlines(): the lines of the text, each with its line end
RECURSIVE readlines(_, _)
readlines(text, line) ==
    IF text = <<>> THEN (IF line = <<>> THEN <<>> ELSE <<line>>)
    ELSE IF Head(text) = "\n" THEN <<Append(line, "\n")>> \o readlines(Tail(text), <<>>)
    ELSE readlines(Tail(text), Append(line, Head(text)))

\* identifier in line
contains(line, ident) ==
    \E i \in 0..(Len(line) - Len(ident)) : SubSeq(line, i + 1, i + Len(ident)) = ident

\* line.find(c): the 0-based index of the first c, or -1
find(line, c) ==
    IF \E i \in DOMAIN line : line[i] = c
    THEN Min({i \in DOMAIN line : line[i] = c}) - 1
    ELSE -1

\* str.strip()
RECURSIVE lstrip(_)
lstrip(text) ==
    IF text # <<>> /\ Head(text) \in whitespace THEN lstrip(Tail(text)) ELSE text

RECURSIVE rstrip(_)
rstrip(text) ==
    IF text # <<>> /\ text[Len(text)] \in whitespace
    THEN rstrip(SubSeq(text, 1, Len(text) - 1))
    ELSE text

strip(text) == rstrip(lstrip(text))

\* for line in lines: if identifier in line: ... return line[start_position:].strip()
RECURSIVE UltimateTool_get_value_from_output(_, _)
UltimateTool_get_value_from_output(lines, ident) ==
    IF lines = <<>> THEN NoText
    ELSE LET line == Head(lines)
         IN  IF contains(line, ident)
             THEN LET start_position == find(line, "=") + 1
                  IN  strip(SubSeq(line, start_position + 1, Len(line)))
             ELSE UltimateTool_get_value_from_output(Tail(lines), ident)

ExtractInit ==
    /\ pc = "get_value_from_output"
    /\ MergeIdle
    /\ rows = <<>>
    /\ rowsDiff = <<>>
    /\ StatIdle
    /\ StatsIdle
    /\ DumpIdle
    /\ LoadIdle
    /\ CollectIdle
    /\ ColumnIdle
    /\ CmdlineIdle
    /\ log_text \in Texts(MaxChars)
    /\ identifier \in Identifiers
    /\ extracted = <<>>

\* collect_data.get_value_from_logfile for an Ultimate tool
get_value_from_logfile ==
    /\ pc = "get_value_from_output"
    /\ extracted' = UltimateTool_get_value_from_output(readlines(log_text, <<>>), identifier)
    /\ pc' = "value"
    /\ UNCHANGED <<mergeVars, rows, rowsDiff, statVars, statsVars>>
    /\ UNCHANGED <<dumpVars, loadVars, collectVars, columnVars, cmdlineVars>>
    /\ UNCHANGED <<log_text, identifier>>

ExtractNext ==
    \/ get_value_from_logfile

SpecExtract == ExtractInit /\ [][ExtractNext]_vars

(***************************************************************************)
(* Claims on the extractor.                                                *)
(***************************************************************************)
LogLines == readlines(log_text, <<>>)

\* the numbers of the lines that contain the identifier
Matching == {k \in DOMAIN LogLines : contains(LogLines[k], identifier)}

\* v is the text t without the whitespace around it
IsStripped(v, t) ==
    /\ v = <<>> \/ (v[1] \notin whitespace /\ v[Len(v)] \notin whitespace)
    /\ \E before, after \in 0..Len(t) :
          /\ before + Len(v) + after = Len(t)
          /\ v = SubSeq(t, before + 1, before + Len(v))
          /\ \A i \in (1..before) \cup ((Len(t) - after + 1)..Len(t)) : t[i] \in whitespace

\* v is the stripped text after the first '=' of the line
IsValueOf(v, line) ==
    \E e \in DOMAIN line :
        /\ line[e] = "="
        /\ \A i \in 1..(e - 1) : line[i] # "="
        /\ IsStripped(v, SubSeq(line, e + 1, Len(line)))

\* C21: the value returned is null iff no line contains the identifier;
\* otherwise it is the text after the first '=' of the first line that
\* contains the identifier, without the whitespace around it.
C21_ExtractorContract ==
    pc = "value" =>
        /\ (extracted = NoText) <=> (Matching = {})
        /\ Matching # {} => IsValueOf(extracted, LogLines[Min(Matching)])

\* the same for the logs in which the first matching line has an '='
ValueWithEqualsSign ==
    (pc = "value" /\ Matching # {} /\ find(LogLines[Min(Matching)], "=") >= 0) =>
        /\ extracted # NoText
        /\ IsValueOf(extracted, LogLines[Min(Matching)])

(***************************************************************************)
(* Degenerate cases of the diff filter.                                    *)
(***************************************************************************)
\* the filter has been called and is no longer running
FilterOver == pc # "rows"

SingleRunSet == rows # <<>> /\ Len(rows[1]) = 1

EveryRowDiffers == \A r \in DOMAIN rows : Disagrees(rows[r])

\* C22: filter_rows_with_differences returns the empty list when given no
\* rows, when the rows have a single run set, and when every row differs;
\* in every other case it returns all rows that differ.
C22_DegenerateCases ==
    FilterOver =>
        /\ pc = "diff"
        /\ IF rows = <<>> \/ SingleRunSet \/ EveryRowDiffers
           THEN rowsDiff = <<>>
           ELSE rowsDiff = SelectSeq(rows, Disagrees)

\* the same for the calls that return
ReturnedDegenerateCases ==
    pc = "diff" =>
        IF rows = <<>> \/ SingleRunSet \/ EveryRowDiffers
        THEN rowsDiff = <<>>
        ELSE rowsDiff = SelectSeq(rows, Disagrees)

(***************************************************************************)
(* Column lookup of the diff filter.                                       *)
(***************************************************************************)
\* the values of a result in its columns with the title
ValuesAt(res, title) ==
    {res.values[c] : c \in {k \in DOMAIN res.columns : res.columns[k].title = title}}

\* two rows of the table have, run set by run set, the same values in the
\* columns with a title that is relevant for the diff
SameRelevantValues(r1, r2) ==
    /\ RelevantTitles(rows[r1]) = RelevantTitles(rows[r2])
    /\ \A i \in DOMAIN rows[r1] : \A t \in RelevantTitles(rows[r1]) :
          ValuesAt(rows[r1][i], t) = ValuesAt(rows[r2][i], t)

\* C23: the values compared for a row are those of the columns with a
\* diff-relevant title, looked up in each result's own column list: a row
\* all of whose results have the relevant columns is retained or dropped by
\* the values of these columns, and two rows with the same values in the
\* columns with a relevant title are both retained or both dropped, also
\* when the column list of a result has no column with the title.
C23_ColumnLookup ==
    pc = "diff" =>
        \A r1, r2 \in DOMAIN rows :
            SameRelevantValues(r1, r2) => (InOutput(r1) <=> InOutput(r2))

\* the same for the tables in which every column list has the relevant titles
LookupWithAllColumns ==
    (pc = "diff" /\ \A r \in DOMAIN rows : \A i \in DOMAIN rows[r] :
                        RelevantTitles(rows[r]) \subseteq Titles(rows[r][i].columns)) =>
        \A r1, r2 \in DOMAIN rows :
            SameRelevantValues(r1, r2) => (InOutput(r1) <=> InOutput(r2))

(***************************************************************************)
(* StatValue.from_list over the extended reals.                            *)
(***************************************************************************)
Occurs(v) == \E k \in NumberAt : valueList[k] = v

\* the numbers of the list, of which v is the smallest
Smallest(v) == Occurs(v) /\ \A k \in NumberAt : ~Lt(valueList[k], v)

\* the numbers of the list, of which v is the largest
Largest(v) == Occurs(v) /\ \A k \in NumberAt : ~Lt(v, valueList[k])

\* C24: from_list over the extended reals: with a NaN among the values
\* every field is NaN; otherwise with both infinities sum, avg and stdev
\* are NaN; otherwise with +inf sum = avg = stdev = +inf; otherwise with
\* -inf sum = avg = -inf and stdev = +inf; in the infinite cases min and max
\* are the smallest and the largest value.
C24_ExtendedReals ==
    pc \in {"stat", "permuted"} =>
        IF Occurs(nan)
        THEN stat = StatValue(nan, nan, nan, nan, nan, nan)
        ELSE IF Occurs(inf) \/ Occurs(neg_inf)
        THEN /\ Smallest(stat.min)
             /\ Largest(stat.max)
             /\ IF Occurs(inf) /\ Occurs(neg_inf)
                THEN stat.sum = nan /\ stat.avg = nan /\ stat.stdev = nan
                ELSE IF Occurs(inf)
                THEN stat.sum = inf /\ stat.avg = inf /\ stat.stdev = inf
                ELSE stat.sum = neg_inf /\ stat.avg = neg_inf /\ stat.stdev = inf
        ELSE TRUE

\* the same for the lists on which from_list returns
ExtendedRealsReturned ==
    (pc \in {"stat", "permuted"} /\ stat.median # InvalidOperation) =>
        IF Occurs(nan)
        THEN stat = StatValue(nan, nan, nan, nan, nan, nan)
        ELSE IF Occurs(inf) \/ Occurs(neg_inf)
        THEN /\ Smallest(stat.min)
             /\ Largest(stat.max)
             /\ IF Occurs(inf) /\ Occurs(neg_inf)
                THEN stat.sum = nan /\ stat.avg = nan /\ stat.stdev = nan
                ELSE IF Occurs(inf)
                THEN stat.sum = inf /\ stat.avg = inf /\ stat.stdev = inf
                ELSE stat.sum = neg_inf /\ stat.avg = neg_inf /\ stat.stdev = inf
        ELSE TRUE

(***************************************************************************)
(* The total row of the statistics.                                        *)
(***************************************************************************)
\* the rows of the run set with a status that is not null
WithStatus == {k \in DOMAIN runResults : runResults[k].status # None}

\* the values of column c (1-based) of the rows in K, in the order of the rows
RECURSIVE ValuesOf(_, _, _)
ValuesOf(K, c, k) ==
    IF k > Len(runResults) THEN <<>>
    ELSE (IF k \in K THEN <<to_decimal(runResults[k].values[c])>> ELSE <<>>)
         \o ValuesOf(K, c, k + 1)

TypeOf(c) == runResults[1].columns[c].type

\* C25: the total cell of a status or main-status column is the number of
\* rows of the run set with a non-null status (the empty status counts, the
\* null status of a synthetic missing result does not); the total cell of a
\* numeric column aggregates the values of exactly these rows.
C25_TotalRow ==
    pc = "stats_done" =>
        \A c \in DOMAIN runResults[1].columns :
            /\ TypeOf(c) \in {"main_status", "status"} =>
                  IsCount(stats[1][c], Cardinality(WithStatus))
            /\ TypeOf(c) = "decimal" =>
                  stats[1][c] = from_list(ValuesOf(WithStatus, c, 1))

\* the rows with a status that is neither null nor empty
WithTrueStatus == {k \in WithStatus : runResults[k].status # ""}

\* the same with the rows counted by truth value, for the run sets whose
\* total is not cleared by the post-rule
TotalRowByTruthValue ==
    (pc = "stats_done" /\ WithTrueStatus # {}
        /\ \E c \in DOMAIN runResults[1].columns : TypeOf(c) = "main_status") =>
        \A c \in DOMAIN runResults[1].columns :
            /\ TypeOf(c) \in {"main_status", "status"} =>
                  IsCount(stats[1][c], Cardinality(WithTrueStatus))
            /\ TypeOf(c) = "decimal" =>
                  stats[1][c] = from_list(ValuesOf(WithStatus, c, 1))

(***************************************************************************)
(* The post-rule of the statistics.                                        *)
(***************************************************************************)
\* the cell of statistics row i in column c (1-based) before the post-rule
CellBefore(i, c) == stats_of_column(runResults, c - 1, correct_only)[i]

IsZeroOrNull(cell) == cell = NoneCell \/ cell.sum = NoneV \/ cell.sum = Decimal(0, 1)

IsPositive(cell) == cell # NoneCell /\ cell.sum # NoneV /\ Lt(Decimal(0, 1), cell.sum)

\* C26: for each of the eleven statistics rows, if the cell of the row in
\* the main-status column is 0 or null then all other cells of the row are
\* null in the returned statistics, wherever the main-status column is in
\* the column list; if that cell is positive no cell of the row is changed.
C26_PostRule ==
    pc = "stats_done" =>
        \A i \in 1..11 : \A c \in DOMAIN runResults[1].columns :
            TypeOf(c) = "main_status" =>
                /\ IsZeroOrNull(CellBefore(i, c)) =>
                      \A d \in DOMAIN runResults[1].columns \ {c} : stats[i][d] = NoneCell
                /\ IsPositive(CellBefore(i, c)) =>
                      \A d \in DOMAIN runResults[1].columns : stats[i][d] = CellBefore(i, d)

\* the same for the run sets whose first column is the main-status column
PostRuleMainStatusFirst ==
    (pc = "stats_done" /\ TypeOf(1) = "main_status") =>
        \A i \in 1..11 :
            /\ IsZeroOrNull(CellBefore(i, 1)) =>
                  \A d \in DOMAIN runResults[1].columns \ {1} : stats[i][d] = NoneCell
            /\ IsPositive(CellBefore(i, 1)) =>
                  \A d \in DOMAIN runResults[1].columns : stats[i][d] = CellBefore(i, d)

(***************************************************************************)
(* The correct-only toggle in the statistics.                              *)
(***************************************************************************)
\* the statistics of the run set without the toggle
StatsWithoutToggle ==
    stats_of_rows(stats_of_columns(runResults, FALSE),
                  status_col_index(runResults[1].columns))

\* C27: with correct_only set, every cell of the rows incorrect, wrong-true
\* and wrong-false returned by get_stats_of_run_set is null, in numeric and
\* in status columns alike, and the rows total, correct and
\* correct-unconfirmed (with their splits) are as without the toggle.
C27_CorrectOnlyToggle ==
    (pc = "stats_done" /\ correct_only) =>
        /\ \A i \in 8..10 : \A c \in DOMAIN runResults[1].columns : stats[i][c] = NoneCell
        /\ \A i \in 1..7 : stats[i] = StatsWithoutToggle[i]

\* the same for the numeric columns only
CorrectOnlyNumericColumns ==
    (pc = "stats_done" /\ correct_only) =>
        /\ \A i \in 8..10 : \A c \in DOMAIN runResults[1].columns :
              TypeOf(c) = "decimal" => stats[i][c] = NoneCell
        /\ \A i \in 1..7 : stats[i] = StatsWithoutToggle[i]

(***************************************************************************)
(* The life of a RunSetResult in main(): RunSetResult.create_from_xml,     *)
(* collect_data in a worker of the pool (load_result), then the            *)
(* reconciliation, get_rows, the diff filter and create_tables.  A run set *)
(* is a record of the attributes the object has: _xml_results until        *)
(* collect_data deletes it, results once collect_data has set it.          *)
(***************************************************************************)
\* Util.prettylist on the lists of the model, which have one entry
\* (a text is written <<"str", text>> to tell it from a list)
prettylist(values) == IF values = <<>> THEN <<"str", "">> ELSE <<"str", values[1]>>

\* get_table_head.fix_unit_display
fix_unit_display(value) == IF value = "10s" THEN "10 s" ELSE value

\* RunSetResult._extract_attributes_from_result for result file i
extract_attributes(i) ==
    [benchmarkname |-> <<"bench">>,
     name |-> IF i = 1 THEN <<>> ELSE <<"runset">>,
     timelimit |-> <<"10s">>]

\* RunSetResult.create_from_xml for result file i with the run tags of tasks
create_from_xml(i, tasks) ==
    [_xml_results |-> tasks,
     attributes |-> extract_attributes(i),
     columns |-> [c \in DOMAIN ColumnsOf(i) |-> Column(ColumnsOf(i)[c].title, "None")]]

\* collect_data that leaves self._xml_results in place
collect_data_keeps_xml_results(runset, i) ==
    [_xml_results |-> runset._xml_results,
     attributes |-> runset.attributes,
     columns |-> ColumnsOf(i),
     results |-> [k \in DOMAIN runset._xml_results |->
                     LoadedResult(i, k, runset._xml_results[k])]]

\* RunSetResult.collect_data: results from the run tags, typed columns,
\* del self._xml_results
collect_data(runset, i) ==
    [attributes |-> runset.attributes,
     columns |-> ColumnsOf(i),
     results |-> [k \in DOMAIN runset._xml_results |->
                     LoadedResult(i, k, runset._xml_results[k])]]

\* create_tables: niceName; all benchmark names of the model are equal
niceName(attributes) ==
    IF attributes.name = <<>> THEN attributes.benchmarkname ELSE attributes.name

\* get_table_head: the entries of the attributes are overwritten with texts
get_table_head(attributes) ==
    [benchmarkname |-> prettylist(attributes.benchmarkname),
     name |-> prettylist(attributes.name),
     niceName |-> prettylist(attributes.niceName),
     timelimit |-> prettylist(<<fix_unit_display(attributes.timelimit[1])>>)]

LifecycleInit ==
    /\ pc = "load_results"
    /\ common \in BOOLEAN
    /\ \E n \in 1..MaxRunSets : \E lens \in [1..n -> 0..MaxRuns] :
          /\ SumUpTo(lens, n) <= MaxRuns
          /\ \E flat \in [1..SumUpTo(lens, n) -> Tasks] : input = Split(flat, lens)
    /\ runSetResults = [i \in DOMAIN input |-> create_from_xml(i, input[i])]
    /\ task_list = <<>>
    /\ task_set = {}
    /\ rs = 1
    /\ pos = 1
    /\ index = -1
    /\ currentresult_taskset = {}
    /\ rows = <<>>
    /\ rowsDiff = <<>>
    /\ StatIdle
    /\ StatsIdle
    /\ OtherIdle

\* load_result in a worker: result.collect_data(options.correct_only)
load_result_collect_data ==
    /\ pc = "load_results"
    /\ \E i \in DOMAIN runSetResults :
          /\ "_xml_results" \in DOMAIN runSetResults[i]
          /\ runSetResults' =
                [runSetResults EXCEPT ![i] = collect_data(runSetResults[i], i)]
    /\ UNCHANGED <<pc, common, input, task_list, task_set, rs, pos, index,
                   currentresult_taskset, rows>>
    /\ UNCHANGED <<rowsDiff, statVars, statsVars, otherVars>>

\* main(): every load_result has returned its RunSetResult
load_results_done ==
    /\ pc = "load_results"
    /\ \A i \in DOMAIN runSetResults : "results" \in DOMAIN runSetResults[i]
    /\ pc' = "main"
    /\ UNCHANGED <<mergeVars, rows, rowsDiff, statVars, statsVars, otherVars>>

\* main(): create_tables with get_table_head
create_tables ==
    /\ pc = "diff"
    /\ runSetResults' =
          [i \in DOMAIN runSetResults |->
              [runSetResults[i] EXCEPT !.attributes =
                  get_table_head([benchmarkname |-> @.benchmarkname,
                                  name |-> @.name,
                                  niceName |-> niceName(@),
                                  timelimit |-> @.timelimit])]]
    /\ pc' = "tables"
    /\ UNCHANGED <<common, input, task_list, task_set, rs, pos, index,
                   currentresult_taskset, rows>>
    /\ UNCHANGED <<rowsDiff, statVars, statsVars, otherVars>>

LifecycleNext ==
    \/ load_result_collect_data
    \/ load_results_done
    \/ merge_tasks_enter
    \/ merge_tasks_inner
    \/ merge_tasks_outer
    \/ merge_tasks_return
    \/ find_common_tasks
    \/ get_rows
    \/ filter_rows_with_differences
    \/ create_tables

SpecLifecycle == LifecycleInit /\ [][LifecycleNext]_vars

(***************************************************************************)
(* Claims on the life of a RunSetResult.                                   *)
(***************************************************************************)
Constructed(runset) ==
    "_xml_results" \in DOMAIN runset /\ "results" \notin DOMAIN runset

Collected(runset) ==
    "results" \in DOMAIN runset /\ "_xml_results" \notin DOMAIN runset

\* a run set is constructed and then collected, and the steps of the
\* pipeline after the loading find every run set collected
TwoPhases ==
    /\ \A i \in DOMAIN runSetResults :
          Constructed(runSetResults[i]) \/ Collected(runSetResults[i])
    /\ pc # "load_results" =>
          \A i \in DOMAIN runSetResults : Collected(runSetResults[i])

\* collect_data runs on a constructed run set only, and a collected run set
\* stays collected
CollectedOnce ==
    \A i \in DOMAIN runSetResults :
        /\ Collected(runSetResults[i]) => Collected(runSetResults'[i])
        /\ (Constructed(runSetResults[i]) /\ Collected(runSetResults'[i])) =>
              runSetResults'[i] = collect_data(runSetResults[i], i)

\* a collected run set is left as it is
ReadOnly ==
    \A i \in DOMAIN runSetResults :
        Collected(runSetResults[i]) => runSetResults'[i] = runSetResults[i]

\* C28 as claimed: a RunSetResult is constructed from XML and then goes
\* through collect_data exactly once, and after collect_data no later step
\* of the pipeline changes its results, columns or attributes.
C28_ReadOnlyAfterCollect ==
    []TwoPhases /\ [][CollectedOnce /\ ReadOnly]_vars

\* the results of a collected run set change only when merge_task_lists
\* aligns them to the canonical task list, the attributes only in
\* create_tables, the columns never
ChangedByMergeAndTables ==
    \A i \in DOMAIN runSetResults :
        Collected(runSetResults[i]) =>
            /\ runSetResults'[i].columns = runSetResults[i].columns
            /\ runSetResults'[i].results # runSetResults[i].results =>
                  /\ pc \in {"main", "merge_tasks"} /\ pc' = "merged"
                  /\ get_tasks(runSetResults'[i]) = task_list'
            /\ runSetResults'[i].attributes # runSetResults[i].attributes =>
                  pc = "diff" /\ pc' = "tables"

\* C28 amended: a RunSetResult is constructed from XML and then goes
\* through collect_data exactly once; after collect_data its columns are
\* never changed, its results are replaced once, by merge_task_lists, with
\* one result per task of the canonical list, and its attributes are
\* rewritten by create_tables and get_table_head.
C28_ChangedByMergeAndTables ==
    []TwoPhases /\ [][CollectedOnce /\ ChangedByMergeAndTables]_vars

C28_Witness ==
    /\ pc = "tables"
    /\ Len(runSetResults) = 2
    /\ Len(input[1]) > Len(input[2])
    /\ get_tasks(runSetResults[2]) # input[2]
    /\ runSetResults[2].results[1].category = CATEGORY_MISSING
    /\ runSetResults[1].attributes.timelimit = <<"str", "10 s">>
    /\ runSetResults[2].attributes.niceName = <<"str", "runset">>
    /\ runSetResults[2].columns = ColumnsOf(2)

(***************************************************************************)
(* The insertions of merge_tasks, on run sets with up to NumUnionTasks     *)
(* task ids, so that a task can be inserted between two tasks of the       *)
(* canonical list.                                                         *)
(***************************************************************************)
UnionInit ==
    /\ pc = "main"
    /\ common \in BOOLEAN
    /\ \E n \in 1..MaxRunSets : \E lens \in [1..n -> 0..MaxRuns] :
          /\ SumUpTo(lens, n) <= MaxRuns
          /\ \E flat \in [1..SumUpTo(lens, n) -> 1..NumUnionTasks] :
                input = Split(flat, lens)
    /\ runSetResults = Loaded
    /\ task_list = <<>>
    /\ task_set = {}
    /\ rs = 1
    /\ pos = 1
    /\ index = -1
    /\ currentresult_taskset = {}
    /\ rows = <<>>
    /\ rowsDiff = <<>>
    /\ StatIdle
    /\ StatsIdle
    /\ OtherIdle

SpecUnion == UnionInit /\ [][MergeNext]_vars

\* a step keeps every task of the canonical list, and any two of them in
\* their order
KeepsPlacedTasks ==
    /\ Range(task_list) \subseteq Range(task_list')
    /\ \A a, b \in Range(task_list) :
          PosIn(task_list, a) < PosIn(task_list, b) =>
              PosIn(task_list', a) < PosIn(task_list', b)

\* the duplicate-free order of the first run set is a subsequence of the
\* canonical order once the first run set has been processed
FirstRunSetKept ==
    (~common /\ (pc = "merged" \/ (pc = "merge_tasks" /\ rs > 1))) =>
        IsSubseq(Dedup(InputTasks(1)), task_list)

\* C29: while merge_tasks processes the run sets, a task once placed in the
\* canonical list is never removed and the order of two tasks in the list
\* is never changed by a later insertion; the duplicate-free order of the
\* first run set is a subsequence of the final canonical order.
C29_FirstOccurrenceWins ==
    [][~common => KeepsPlacedTasks]_vars /\ []FirstRunSetKept

\* the second run set has put task 3 between the tasks 1 and 2 of the first
C29_Witness ==
    /\ pc = "merged"
    /\ ~common
    /\ input = <<<<1, 2>>, <<1, 3>>>>
    /\ task_list = <<1, 3, 2>>

(***************************************************************************)
(* UltimateTool.cmdline and determine_result, called run after run with    *)
(* the same arguments: the list of options is the caller's object.         *)
(***************************************************************************)
_OPTION_NO_WRAPPER == "--force-no-wrapper"

_SVCOMP17_FORBIDDEN_FLAGS == {"--full-output", "--architecture"}

\* the options of a benchmark definition
Options == {_OPTION_NO_WRAPPER, "-tc", "--full-output", "-ultimatedata", "-data"}

\* the tools behind executable: a version of _SVCOMP17_VERSIONS or a later one
Executables == {"f7c3ed31", "0.1.24-dev"}

\* UltimateTool._is_svcomp17_version
_is_svcomp17_version(exe) == exe = "f7c3ed31"

\* UltimateTool._requires_ultimate_data: major == 0 compares a text with a
\* number and is false, so that the result is true for every later version
_requires_ultimate_data(exe) == ~_is_svcomp17_version(exe)

\* list.remove(x): the list without the first x
remove(list, x) ==
    LET first == Min({k \in DOMAIN list : list[k] = x})
    IN  SubSeq(list, 1, first - 1) \o SubSeq(list, first + 1, Len(list))

\* the options as cmdline leaves them in the caller's list
options_after(opts) ==
    IF _OPTION_NO_WRAPPER \in Range(opts) THEN remove(opts, _OPTION_NO_WRAPPER) ELSE opts

\* self._uses_propertyfile as cmdline leaves it
uses_propertyfile_after(opts, prop) ==
    IF _OPTION_NO_WRAPPER \in Range(opts) THEN FALSE ELSE prop # None

\* the value returned by cmdline, or the exception raised (<<"raise", name>>)
cmdline(exe, opts, tasks, prop) ==
    LET uses == uses_propertyfile_after(opts, prop)
        file == IF _OPTION_NO_WRAPPER \in Range(opts) THEN None ELSE prop
        rest == options_after(opts)
    IN  IF _is_svcomp17_version(exe)
        THEN IF file = None THEN <<"raise", "AssertionError">>
             ELSE <<exe, file>>
                      \o SelectSeq(rest, LAMBDA option : option \notin _SVCOMP17_FORBIDDEN_FLAGS)
                      \o <<"--full-output">> \o tasks
        ELSE IF uses
        THEN <<exe, "--spec", file>>
                 \o (IF tasks # <<>> THEN <<"--file">> \o tasks ELSE <<>>)
                 \o rest
        ELSE IF "-tc" \in Range(rest) \/ "--toolchain" \in Range(rest)
        THEN <<"java", "-jar", "launcher.jar">>
                 \o (IF _requires_ultimate_data(exe)
                     THEN (IF "-ultimatedata" \notin Range(rest) /\ "-data" \notin Range(rest)
                           THEN <<"-data", "@noDefault", "-ultimatedata", "data">>
                           ELSE IF "-ultimatedata" \in Range(rest) /\ "-data" \notin Range(rest)
                           THEN <<"-data", "@noDefault">>
                           ELSE <<>>)
                     ELSE (IF "-data" \notin Range(rest) THEN <<"-data", "data">> ELSE <<>>))
                 \o rest
                 \o (IF tasks # <<>> THEN <<"-i">> \o tasks ELSE <<>>)
        ELSE <<"raise", "NameError">>

CmdlineInit ==
    /\ pc = "cmdline"
    /\ MergeIdle
    /\ rows = <<>>
    /\ rowsDiff = <<>>
    /\ StatIdle
    /\ StatsIdle
    /\ DumpIdle
    /\ LoadIdle
    /\ CollectIdle
    /\ ColumnIdle
    /\ ExtractIdle
    /\ executable \in Executables
    /\ \E n \in 0..MaxOptions : options \in [1..n -> Options]
    /\ propertyfile \in {None, "prop.prp"}
    /\ input_files \in {<<>>, <<"task.c">>}
    /\ _uses_propertyfile = FALSE
    /\ cmdlines = <<>>

\* the executor calls tool.cmdline(executable, options, tasks, propertyfile)
cmdline_call ==
    /\ pc = "cmdline"
    /\ Len(cmdlines) < MaxCalls
    /\ cmdlines' = Append(cmdlines,
                          [options |-> options,
                           cmdline |-> cmdline(executable, options, input_files, propertyfile),
                           parser |-> "None"])
    /\ options' = options_after(options)
    /\ _uses_propertyfile' = uses_propertyfile_after(options, propertyfile)
    /\ pc' = "determine_result"
    /\ UNCHANGED <<mergeVars, rows, rowsDiff, statVars, statsVars>>
    /\ UNCHANGED <<dumpVars, loadVars, collectVars, columnVars, extractVars>>
    /\ UNCHANGED <<executable, propertyfile, input_files>>

\* the executor calls tool.determine_result on the output of the run
determine_result ==
    /\ pc = "determine_result"
    /\ cmdlines' = [cmdlines EXCEPT ![Len(cmdlines)].parser =
                       IF _uses_propertyfile
                       THEN "_determine_result_with_propertyfile"
                       ELSE "_determine_result_without_propertyfile"]
    /\ pc' = "cmdline"
    /\ UNCHANGED <<mergeVars, rows, rowsDiff, statVars, statsVars>>
    /\ UNCHANGED <<dumpVars, loadVars, collectVars, columnVars, extractVars>>
    /\ UNCHANGED <<executable, options, propertyfile, input_files, _uses_propertyfile>>

CmdlineNext ==
    \/ cmdline_call
    \/ determine_result

SpecCmdline == CmdlineInit /\ [][CmdlineNext]_vars

(***************************************************************************)
(* Claims on cmdline.                                                      *)
(***************************************************************************)
\* C30: cmdline leaves the caller's list of options as it is, and two
\* successive calls with the same arguments return the same command line
\* and leave the tool in the same mode for the determine_result that
\* follows.
C30_CmdlineRepeatable ==
    /\ \A k \in DOMAIN cmdlines : options = cmdlines[k].options
    /\ \A j, k \in DOMAIN cmdlines :
          (cmdlines[j].parser # "None" /\ cmdlines[k].parser # "None") =>
              /\ cmdlines[j].cmdline = cmdlines[k].cmdline
              /\ cmdlines[j].parser = cmdlines[k].parser

\* the same for the lists of options without --force-no-wrapper
RepeatableWithoutNoWrapper ==
    (cmdlines # <<>> /\ _OPTION_NO_WRAPPER \notin Range(cmdlines[1].options)) =>
        C30_CmdlineRepeatable

====
